---- MODULE Spec2Model ----
(***************************************************************************)
(* Input normalisation and combo detection of gabagool                     *)
(* (internal.Processor).  One action per exported operation of the         *)
(* Processor; the helpers it calls are operators over the record of the    *)
(* combo-detection fields, applied in the order the code calls them.       *)
(*                                                                         *)
(* Time is counted in units of 50ms: time.Now() is the variable now, which *)
(* the action Tick advances between calls.  The two time.Now() reads of    *)
(* one hat direction change are taken to return the same instant.          *)
(***************************************************************************)
EXTENDS Integers, Sequences, FiniteSets, TLC

VARIABLES
  inputMappingBytes, \* the package variable inputMappingBytes
  environ,          \* the environment: INPUT_MAPPING_PATH and the file it names
  mapping,          \* Processor.mapping (*InputMapping), fixed at construction
  axisStates,       \* Processor.axisStates: axis -> -1 | 0 | 1
  hatStates,        \* Processor.hatStates: hat -> last hat value
  eventQueue,       \* Processor.eventQueue
  buttonStates,     \* Processor.buttonStates: partial map button -> buttonState
  registeredCombos, \* Processor.registeredCombos
  comboEventQueue,  \* Processor.comboEventQueue
  sequenceBuffer,   \* Processor.sequenceBuffer
  now,              \* the clock read by time.Now()
  last,             \* history: the last call, its argument and what it returned
  fired,            \* history: indices of the combos that enqueued an event in the last call
  called            \* history: callbacks invoked in the last call

vars == <<inputMappingBytes, environ, mapping, axisStates, hatStates, eventQueue, buttonStates,
          registeredCombos, comboEventQueue, sequenceBuffer, now, last,
          fired, called>>

-----------------------------------------------------------------------------
(* Bounds of the model *)

MaxTime == 3
MaxBuf == 3
MaxCombos == 2
MaxQueue == 3
MaxPresses == 2
MaxPending == 1

MaxGrowth == 22

MaxWait == 12

-----------------------------------------------------------------------------
(* Types and constants of the program *)

HAT_CENTERED == 0

maxBufferSize == 20

DefaultWindow == 2

DefaultTimeout == 10

ZeroTime == -1

ComboTypeChord == "Chord"

ComboTypeSequence == "Sequence"

SourceKeyboard == "Keyboard"

SourceController == "Controller"

SourceJoystick == "Joystick"

SourceHatSwitch == "HatSwitch"

Event(button, pressed, source, rawCode) ==
  [Button |-> button, Pressed |-> pressed, Source |-> source, RawCode |-> rawCode]

ComboEvent(id, type, buttons, triggered) ==
  [ComboID |-> id, ComboType |-> type, Buttons |-> buttons, Triggered |-> triggered]

\* int16 negation as Go computes it (two's complement, wraps at -32768)
NegInt16(x) == ((32768 - x) % 65536) - 32768

DefaultInputMapping ==
  [KeyboardMap |-> (1073741906 :> "Up" @@ 1073741905 :> "Down" @@
                    1073741904 :> "Left" @@ 1073741903 :> "Right" @@
                    97 :> "A" @@ 98 :> "B" @@ 120 :> "X" @@ 121 :> "Y" @@
                    108 :> "L1" @@ 59 :> "L2" @@ 114 :> "R1" @@ 116 :> "R2" @@
                    13 :> "Start" @@ 32 :> "Select" @@ 104 :> "Menu"),
   ControllerButtonMap |-> (11 :> "Up" @@ 12 :> "Down" @@ 13 :> "Left" @@
                            14 :> "Right" @@ 0 :> "B" @@ 1 :> "A" @@
                            2 :> "Y" @@ 3 :> "X" @@ 9 :> "L1" @@ 10 :> "R1" @@
                            6 :> "Start" @@ 4 :> "Select" @@ 5 :> "Menu"),
   ControllerHatMap |-> << >>,
   JoystickAxisMap |-> << >>,
   JoystickButtonMap |-> << >>,
   JoystickHatMap |-> << >>]

\* A mapping as LoadInputMappingFromBytes builds it from a custom JSON file:
\* a D-pad on the hat (diagonals unmapped), two axes, two joystick buttons.
CustomInputMapping ==
  [KeyboardMap |-> (97 :> "A" @@ 98 :> "B"),
   ControllerButtonMap |-> (0 :> "B" @@ 1 :> "A"),
   ControllerHatMap |-> << >>,
   JoystickAxisMap |->
     (0 :> [PositiveButton |-> "Right", NegativeButton |-> "Left", Threshold |-> 16000] @@
      1 :> [PositiveButton |-> "Down", NegativeButton |-> "Up", Threshold |-> 0]),
   JoystickButtonMap |-> (0 :> "A" @@ 1 :> "B"),
   JoystickHatMap |-> (1 :> "Up" @@ 2 :> "Right" @@ 4 :> "Down" @@ 8 :> "Left")]

\* The same, with the up-right diagonal bound to the button of Up.
DiagonalInputMapping ==
  [CustomInputMapping EXCEPT
     !.JoystickHatMap = (1 :> "Up" @@ 2 :> "Right" @@ 3 :> "Up" @@ 4 :> "Down")]

\* Raw SDL events, one record shape for all: Code is the key code, button,
\* hat or axis index, Down the KEYDOWN / BUTTONDOWN flag, Value the hat or
\* axis value.
RawEvent(type, code, down, value) ==
  [Type |-> type, Code |-> code, Down |-> down, Value |-> value]

NoRaw == RawEvent("none", 0, FALSE, 0)

-----------------------------------------------------------------------------
(* Loading and saving the mapping.  A byte slice is a record: kind is       *)
(* "empty" (no bytes), "malformed" (bytes json.Unmarshal rejects) or "json" *)
(* (a document json.Unmarshal accepts, doc being the Mapping it decodes     *)
(* to).  A table that the document leaves out is the empty function.        *)

\* The names of the VirtualButton values, in the order of their ordinals
\* from 0 on
VirtualButtonNames ==
  <<"Unassigned", "Up", "Down", "Left", "Right", "A", "B", "X", "Y",
    "L1", "L2", "R1", "R2", "Start", "Select", "Menu">>

\* constants.VirtualButton(i): an ordinal without a name is a button of its own
VirtualButton(i) ==
  IF i \in 0..(Len(VirtualButtonNames) - 1) THEN VirtualButtonNames[i + 1] ELSE ToString(i)

\* int(button)
Ordinal(button) ==
  IF \E i \in 1..Len(VirtualButtonNames) : VirtualButtonNames[i] = button
    THEN (CHOOSE i \in 1..Len(VirtualButtonNames) : VirtualButtonNames[i] = button) - 1
    ELSE CHOOSE i \in 0..255 : ToString(i) = button

\* sdl.Keycode(k) and sdl.GameControllerButton(k), conversions of an int to
\* int32: the integers of the model all lie in the int32 range, where the
\* conversion keeps the value
Int32(k) == k

\* uint8(k)
Uint8(k) == k % 256

\* The JoystickAxisMapping of an entry of Mapping.JoystickAxisMap
axisMappingOf(a) ==
  [PositiveButton |-> VirtualButton(a.PositiveButton),
   NegativeButton |-> VirtualButton(a.NegativeButton),
   Threshold |-> a.Threshold]

\* The entry of Mapping.JoystickAxisMap of a JoystickAxisMapping
axisEntryOf(a) ==
  [PositiveButton |-> Ordinal(a.PositiveButton),
   NegativeButton |-> Ordinal(a.NegativeButton),
   Threshold |-> a.Threshold]

Mapping(kb, cb, ch, ja, jb, jh) ==
  [KeyboardMap |-> kb, ControllerButtonMap |-> cb, ControllerHatMap |-> ch,
   JoystickAxisMap |-> ja, JoystickButtonMap |-> jb, JoystickHatMap |-> jh]

EmptyMapping == Mapping(<< >>, << >>, << >>, << >>, << >>, << >>)

Bytes(kind, doc) == [kind |-> kind, doc |-> doc]

NoBytes == Bytes("empty", EmptyMapping)

MalformedBytes == Bytes("malformed", EmptyMapping)

\* One loop "for k, v := range table { target[code(k)] = value(v) }", given
\* as the code and the value each key of the table is written with: the maps
\* it can leave behind.  Keys that the conversion brings together overwrite
\* one another in the order of the map iteration, which Go leaves open.
loaded(codes, values) ==
  LET keys == {codes[k] : k \in DOMAIN codes}
      written(j) == {values[k] : k \in {x \in DOMAIN codes : codes[x] = j}}
      single == {j \in keys : Cardinality(written(j)) = 1}
      fixed == [j \in single |-> CHOOSE v \in written(j) : TRUE]
      open == UNION {written(j) : j \in keys \ single}
  IN {fixed @@ g : g \in {h \in [keys \ single -> open] :
                             \A j \in keys \ single : h[j] \in written(j)}}

\* The keys of a table narrowed to int32 and to uint8, its values as buttons
\* and as axis mappings
asInt32(table) == [k \in DOMAIN table |-> Int32(k)]

asUint8(table) == [k \in DOMAIN table |-> Uint8(k)]

asButtons(table) == [k \in DOMAIN table |-> VirtualButton(table[k])]

asAxisMappings(table) == [k \in DOMAIN table |-> axisMappingOf(table[k])]

\* LoadInputMappingFromBytes: the results it can return (mapping is << >>
\* for nil)
LoadInputMappingFromBytes(data) ==
  IF data.kind # "json"
    THEN {[err |-> TRUE, mapping |-> << >>]}
    ELSE {[err |-> FALSE,
           mapping |-> <<[KeyboardMap |-> kb, ControllerButtonMap |-> cb,
                          ControllerHatMap |-> ch, JoystickAxisMap |-> ja,
                          JoystickButtonMap |-> jb, JoystickHatMap |-> jh]>>] :
            kb \in loaded(asInt32(data.doc.KeyboardMap), asButtons(data.doc.KeyboardMap)),
            cb \in loaded(asInt32(data.doc.ControllerButtonMap),
                          asButtons(data.doc.ControllerButtonMap)),
            ch \in loaded(asUint8(data.doc.ControllerHatMap),
                          asButtons(data.doc.ControllerHatMap)),
            ja \in loaded(asUint8(data.doc.JoystickAxisMap),
                          asAxisMappings(data.doc.JoystickAxisMap)),
            jb \in loaded(asUint8(data.doc.JoystickButtonMap),
                          asButtons(data.doc.JoystickButtonMap)),
            jh \in loaded(asUint8(data.doc.JoystickHatMap),
                          asButtons(data.doc.JoystickHatMap))}

\* LoadInputMappingFromJSON, of the file the environment holds at filePath
LoadInputMappingFromJSON(filePath, env) ==
  IF env.file.path = filePath /\ env.file.readable
    THEN LoadInputMappingFromBytes(env.file.data)
    ELSE {[err |-> TRUE, mapping |-> << >>]}

\* ToJSON that writes every axis threshold as 0
ToJSONWithoutThreshold(im) ==
  Bytes("json",
        Mapping([k \in DOMAIN im.KeyboardMap |-> Ordinal(im.KeyboardMap[k])],
                [k \in DOMAIN im.ControllerButtonMap |-> Ordinal(im.ControllerButtonMap[k])],
                [k \in DOMAIN im.ControllerHatMap |-> Ordinal(im.ControllerHatMap[k])],
                [k \in DOMAIN im.JoystickAxisMap |->
                   [axisEntryOf(im.JoystickAxisMap[k]) EXCEPT !.Threshold = 0]],
                [k \in DOMAIN im.JoystickButtonMap |-> Ordinal(im.JoystickButtonMap[k])],
                [k \in DOMAIN im.JoystickHatMap |-> Ordinal(im.JoystickHatMap[k])]))

\* InputMapping.ToJSON: int(k) widens every key, int(button) is the ordinal
ToJSON(im) ==
  Bytes("json",
        Mapping([k \in DOMAIN im.KeyboardMap |-> Ordinal(im.KeyboardMap[k])],
                [k \in DOMAIN im.ControllerButtonMap |-> Ordinal(im.ControllerButtonMap[k])],
                [k \in DOMAIN im.ControllerHatMap |-> Ordinal(im.ControllerHatMap[k])],
                [k \in DOMAIN im.JoystickAxisMap |-> axisEntryOf(im.JoystickAxisMap[k])],
                [k \in DOMAIN im.JoystickButtonMap |-> Ordinal(im.JoystickButtonMap[k])],
                [k \in DOMAIN im.JoystickHatMap |-> Ordinal(im.JoystickHatMap[k])]))

\* GetInputMapping without the tier of the environment variable
GetInputMappingBytesOrDefault(data, env) ==
  LET fromBytes == IF data.kind # "empty" THEN LoadInputMappingFromBytes(data) ELSE {}
  IN {r.mapping : r \in {x \in fromBytes : ~x.err}}
       \cup (IF data.kind = "empty" \/ \E r \in fromBytes : r.err
               THEN {<<DefaultInputMapping>>} ELSE {})

\* GetInputMapping: the mappings (as pointers: << >> for nil) it can return
GetInputMapping(data, env) ==
  LET fromBytes == IF data.kind # "empty" THEN LoadInputMappingFromBytes(data) ELSE {}
      mappingPath == env.INPUT_MAPPING_PATH
      fromFile == IF mappingPath # "" THEN LoadInputMappingFromJSON(mappingPath, env) ELSE {}
      afterBytes ==
        {r.mapping : r \in {x \in fromFile : ~x.err}}
          \cup (IF mappingPath = "" \/ \E r \in fromFile : r.err
                  THEN {<<DefaultInputMapping>>} ELSE {})
  IN {r.mapping : r \in {x \in fromBytes : ~x.err}}
       \cup (IF data.kind = "empty" \/ \E r \in fromBytes : r.err
               THEN afterBytes ELSE {})

File(path, readable, data) == [path |-> path, readable |-> readable, data |-> data]

Environ(mappingPath, file) == [INPUT_MAPPING_PATH |-> mappingPath, file |-> file]

\* Nothing configured: no environment variable, no file
NoEnviron == Environ("", File("", FALSE, NoBytes))

-----------------------------------------------------------------------------
(* The combo-detection fields, as one record the helpers transform *)

ip ==
  [buttonStates |-> buttonStates, registeredCombos |-> registeredCombos,
   comboEventQueue |-> comboEventQueue, sequenceBuffer |-> sequenceBuffer,
   fired |-> << >>, called |-> << >>, seen |-> << >>, panic |-> FALSE]

exists(m, k) == k \in DOMAIN m

\* The index UnregisterCombo removes: the first combo with the ID (0: none)
firstWithID(combos, id) ==
  IF \E i \in 1..Len(combos) : combos[i].ID = id
    THEN CHOOSE i \in 1..Len(combos) :
           combos[i].ID = id /\ \A j \in 1..(i - 1) : combos[j].ID # id
    ELSE 0

removeAt(combos, i) == SubSeq(combos, 1, i - 1) \o SubSeq(combos, i + 1, Len(combos))

\* What the callbacks of a combo do when they run: nothing to the Processor
\* (Observes), or a call of ClearCombos or of UnregisterCombo(id)
Body(op, id) == [op |-> op, id |-> id]

Observes == Body("none", "")

\* The callbacks of the combo at index i run their body
runBody(p, i) ==
  LET body == p.registeredCombos[i].Body
  IN CASE body.op = "ClearCombos" ->
            [p EXCEPT !.registeredCombos = << >>, !.sequenceBuffer = << >>]
       [] body.op = "UnregisterCombo" ->
            [p EXCEPT !.registeredCombos =
               IF firstWithID(@, body.id) = 0 THEN @ ELSE removeAt(@, firstWithID(@, body.id))]
       [] OTHER -> p

\* The read of ip.registeredCombos[i] in a loop "for i := range
\* ip.registeredCombos", whose bound was taken when the loop began: an index
\* past the end of the list as it is now is a run-time panic
outOfRange(p, i) == i > Len(p.registeredCombos)

panics(p) == [p EXCEPT !.panic = TRUE]

\* What the OnTrigger callback of the chord at index i can read of the
\* Processor when it runs: the buttons recorded as pressed, the active flag
\* of its chord, the number of events in the combo queue
Observed(p, i) ==
  [combo |-> i,
   pressed |-> {b \in DOMAIN p.buttonStates : p.buttonStates[b].Pressed},
   active |-> p.registeredCombos[i].active,
   pending |-> Len(p.comboEventQueue)]

\* combo.Chord.OnTrigger() of the chord at index i
OnTrigger(p, i) ==
  runBody([p EXCEPT !.called = Append(@, <<i, "OnTrigger">>),
                    !.seen = Append(@, Observed(p, i))], i)

\* combo.Chord.OnRelease() of the chord at index i
OnRelease(p, i) == runBody([p EXCEPT !.called = Append(@, <<i, "OnRelease">>)], i)

\* combo.Sequence.OnTrigger() of the sequence at index i
OnSequenceTrigger(p, i) == runBody([p EXCEPT !.called = Append(@, <<i, "OnTrigger">>)], i)

\* addToSequenceBuffer keeping the oldest entries of a full buffer
addToSequenceBufferKeepsOldest(p, button, t) ==
  LET b == Append(p.sequenceBuffer, [Button |-> button, Time |-> t])
  IN [p EXCEPT !.sequenceBuffer =
        IF Len(b) > maxBufferSize THEN SubSeq(b, 1, maxBufferSize) ELSE b]

\* addToSequenceBuffer keeping one entry more
addToSequenceBufferOneMore(p, button, t) ==
  LET b == Append(p.sequenceBuffer, [Button |-> button, Time |-> t])
  IN [p EXCEPT !.sequenceBuffer =
        IF Len(b) > maxBufferSize + 1
          THEN SubSeq(b, Len(b) - maxBufferSize, Len(b))
          ELSE b]

\* addToSequenceBuffer
addToSequenceBuffer(p, button, t) ==
  LET b == Append(p.sequenceBuffer, [Button |-> button, Time |-> t])
  IN [p EXCEPT !.sequenceBuffer =
        IF Len(b) > maxBufferSize
          THEN SubSeq(b, Len(b) - maxBufferSize + 1, Len(b))
          ELSE b]

\* The loop over combo.Buttons of checkChords, from position k on:
\* allPressed, earliestPress and latestPress when the loop ends or breaks.
RECURSIVE chordScan(_, _, _, _, _)
chordScan(p, btns, k, earliestPress, latestPress) ==
  IF k > Len(btns)
    THEN [allPressed |-> TRUE, earliestPress |-> earliestPress, latestPress |-> latestPress]
    ELSE IF ~exists(p.buttonStates, btns[k]) \/ ~p.buttonStates[btns[k]].Pressed
      THEN [allPressed |-> FALSE, earliestPress |-> earliestPress, latestPress |-> latestPress]
      ELSE LET t == p.buttonStates[btns[k]].PressTime
               e == IF earliestPress = ZeroTime \/ t < earliestPress THEN t ELSE earliestPress
               l == IF t > latestPress THEN t ELSE latestPress
           IN chordScan(p, btns, k + 1, e, l)

\* checkChord with the window compared by < instead of <=
checkChordStrictWindow(p, i) ==
  LET combo == p.registeredCombos[i]
      scan == chordScan(p, combo.Buttons, 1, ZeroTime, ZeroTime)
  IN IF combo.Type # ComboTypeChord \/ combo.active
       THEN p
       ELSE IF scan.allPressed /\ scan.latestPress - scan.earliestPress < combo.Window
         THEN [p EXCEPT
                 !.registeredCombos[i].active = TRUE,
                 !.comboEventQueue = Append(@, ComboEvent(combo.ID, ComboTypeChord, combo.Buttons, TRUE)),
                 !.fired = Append(@, i),
                 !.called = IF combo.OnTrigger THEN Append(@, <<i, "OnTrigger">>) ELSE @]
         ELSE p

\* checkChord without the test of combo.active
checkChordIgnoringActive(p, i) ==
  LET combo == p.registeredCombos[i]
      scan == chordScan(p, combo.Buttons, 1, ZeroTime, ZeroTime)
  IN IF combo.Type # ComboTypeChord
       THEN p
       ELSE IF scan.allPressed /\ scan.latestPress - scan.earliestPress <= combo.Window
         THEN [p EXCEPT
                 !.registeredCombos[i].active = TRUE,
                 !.comboEventQueue = Append(@, ComboEvent(combo.ID, ComboTypeChord, combo.Buttons, TRUE)),
                 !.fired = Append(@, i),
                 !.called = IF combo.OnTrigger THEN Append(@, <<i, "OnTrigger">>) ELSE @]
         ELSE p

\* checkChord calling OnTrigger before it marks the chord and enqueues the
\* event
checkChordCallbackFirst(p, i) ==
  LET combo == p.registeredCombos[i]
      scan == chordScan(p, combo.Buttons, 1, ZeroTime, ZeroTime)
      told == IF combo.OnTrigger THEN OnTrigger(p, i) ELSE p
  IN IF combo.Type # ComboTypeChord \/ combo.active
       THEN p
       ELSE IF scan.allPressed /\ scan.latestPress - scan.earliestPress <= combo.Window
         THEN [told EXCEPT
                 !.registeredCombos[i].active = TRUE,
                 !.comboEventQueue = Append(@, ComboEvent(combo.ID, ComboTypeChord, combo.Buttons, TRUE)),
                 !.fired = Append(@, i)]
         ELSE p

\* One iteration of the loop of checkChords, for the combo at index i
checkChord(p, i) ==
  LET combo == p.registeredCombos[i]
      scan == chordScan(p, combo.Buttons, 1, ZeroTime, ZeroTime)
      triggered ==
        [p EXCEPT
           !.registeredCombos[i].active = TRUE,
           !.comboEventQueue = Append(@, ComboEvent(combo.ID, ComboTypeChord, combo.Buttons, TRUE)),
           !.fired = Append(@, i)]
  IN IF combo.Type # ComboTypeChord \/ combo.active
       THEN p
       ELSE IF scan.allPressed /\ scan.latestPress - scan.earliestPress <= combo.Window
         THEN IF combo.OnTrigger THEN OnTrigger(triggered, i) ELSE triggered
         ELSE p

\* The loop of checkChords from index i on, n being the length of the list
\* when the loop began
RECURSIVE checkChordsFrom(_, _, _)
checkChordsFrom(p, i, n) ==
  IF i > n THEN p
  ELSE IF outOfRange(p, i) THEN panics(p)
  ELSE checkChordsFrom(checkChord(p, i), i + 1, n)

\* checkChords
checkChords(p, t) == checkChordsFrom(p, 1, Len(p.registeredCombos))

\* The inner loop of checkChordReleases: is some button of the chord not pressed
anyReleased(p, btns) ==
  \E k \in 1..Len(btns) :
    ~exists(p.buttonStates, btns[k]) \/ ~p.buttonStates[btns[k]].Pressed

\* checkChordRelease without the reset of combo.active
checkChordReleaseKeepsActive(p, i) ==
  LET combo == p.registeredCombos[i]
  IN IF combo.Type # ComboTypeChord \/ ~combo.active
       THEN p
       ELSE IF anyReleased(p, combo.Buttons)
         THEN [p EXCEPT
                 !.comboEventQueue = Append(@, ComboEvent(combo.ID, ComboTypeChord, combo.Buttons, FALSE)),
                 !.fired = Append(@, i),
                 !.called = IF combo.OnRelease THEN Append(@, <<i, "OnRelease">>) ELSE @]
         ELSE p

\* checkChordRelease taking a sequence for a chord that is always active
checkChordReleaseAlsoSequences(p, i) ==
  LET combo == p.registeredCombos[i]
  IN IF combo.Type = ComboTypeChord /\ ~combo.active
       THEN p
       ELSE IF anyReleased(p, combo.Buttons)
         THEN [p EXCEPT
                 !.registeredCombos[i].active = FALSE,
                 !.comboEventQueue = Append(@, ComboEvent(combo.ID, combo.Type, combo.Buttons, FALSE)),
                 !.fired = Append(@, i),
                 !.called = IF combo.OnRelease THEN Append(@, <<i, "OnRelease">>) ELSE @]
         ELSE p

\* One iteration of the loop of checkChordReleases, for the combo at index i
checkChordRelease(p, i) ==
  LET combo == p.registeredCombos[i]
      released ==
        [p EXCEPT
           !.registeredCombos[i].active = FALSE,
           !.comboEventQueue = Append(@, ComboEvent(combo.ID, ComboTypeChord, combo.Buttons, FALSE)),
           !.fired = Append(@, i)]
  IN IF combo.Type # ComboTypeChord \/ ~combo.active
       THEN p
       ELSE IF anyReleased(p, combo.Buttons)
         THEN IF combo.OnRelease THEN OnRelease(released, i) ELSE released
         ELSE p

\* The loop of checkChordReleases from index i on, n being the length of the
\* list when the loop began
RECURSIVE checkChordReleasesFrom(_, _, _)
checkChordReleasesFrom(p, i, n) ==
  IF i > n THEN p
  ELSE IF outOfRange(p, i) THEN panics(p)
  ELSE checkChordReleasesFrom(checkChordRelease(p, i), i + 1, n)

\* checkChordReleases
checkChordReleases(p) == checkChordReleasesFrom(p, 1, Len(p.registeredCombos))

\* windowMatches without the test of the gaps
windowMatchesAnyGap(p, combo, bufferStart) ==
  \A i \in 1..Len(combo.Buttons) :
    p.sequenceBuffer[bufferStart + i].Button = combo.Buttons[i]

\* The first loop of matchesSequence: buttons and gaps of the last N entries
windowMatches(p, combo, bufferStart) ==
  \A i \in 1..Len(combo.Buttons) :
    /\ p.sequenceBuffer[bufferStart + i].Button = combo.Buttons[i]
    /\ i > 1 =>
         p.sequenceBuffer[bufferStart + i].Time - p.sequenceBuffer[bufferStart + i - 1].Time
           <= combo.Timeout

\* The strict branch of matchesSequence: no earlier entry close to now
strictPasses(p, combo, bufferStart, t) ==
  \A j \in 1..bufferStart :
    ~(t - p.sequenceBuffer[j].Time < combo.Timeout * Len(combo.Buttons))

\* matchesSequence (bufferStart counts the entries before the window)
matchesSequence(p, combo, t) ==
  IF Len(p.sequenceBuffer) < Len(combo.Buttons)
    THEN FALSE
    ELSE LET bufferStart == Len(p.sequenceBuffer) - Len(combo.Buttons)
         IN /\ windowMatches(p, combo, bufferStart)
            /\ (combo.Strict /\ bufferStart > 0) => strictPasses(p, combo, bufferStart, t)

\* checkSequence that leaves the buffer as it is
checkSequenceKeepsBuffer(p, i, t) ==
  LET combo == p.registeredCombos[i]
  IN IF combo.Type # ComboTypeSequence
       THEN p
       ELSE IF matchesSequence(p, combo, t)
         THEN [p EXCEPT
                 !.comboEventQueue = Append(@, ComboEvent(combo.ID, ComboTypeSequence, combo.Buttons, TRUE)),
                 !.fired = Append(@, i),
                 !.called = IF combo.OnTrigger THEN Append(@, <<i, "OnTrigger">>) ELSE @]
         ELSE p

\* One iteration of the loop of checkSequences, for the combo at index i
checkSequence(p, i, t) ==
  LET combo == p.registeredCombos[i]
      triggered ==
        [p EXCEPT
           !.comboEventQueue = Append(@, ComboEvent(combo.ID, ComboTypeSequence, combo.Buttons, TRUE)),
           !.fired = Append(@, i)]
      told == IF combo.OnTrigger THEN OnSequenceTrigger(triggered, i) ELSE triggered
  IN IF combo.Type # ComboTypeSequence
       THEN p
       ELSE IF matchesSequence(p, combo, t)
         THEN [told EXCEPT !.sequenceBuffer = << >>]
         ELSE p

\* The loop of checkSequences from index i on, n being the length of the list
\* when the loop began; it does not begin when checkChords has panicked
RECURSIVE checkSequencesFrom(_, _, _, _)
checkSequencesFrom(p, i, t, n) ==
  IF i > n \/ p.panic THEN p
  ELSE IF outOfRange(p, i) THEN panics(p)
  ELSE checkSequencesFrom(checkSequence(p, i, t), i + 1, t, n)

\* checkSequences that evaluates every sequence against the buffer of the
\* press and empties the buffer after the last one
checkSequencesClearingLast(p, t) ==
  LET RECURSIVE from(_, _)
      from(q, i) ==
        IF i > Len(q.registeredCombos) THEN q
        ELSE from(checkSequenceKeepsBuffer(q, i, t), i + 1)
      r == from(p, 1)
  IN IF r.fired # p.fired THEN [r EXCEPT !.sequenceBuffer = << >>] ELSE r

\* checkSequences
checkSequences(p, t) == checkSequencesFrom(p, 1, t, Len(p.registeredCombos))

\* updateButtonState that keeps the press time of a button already pressed
updateButtonStateKeepsFirstPress(p, button, pressed, t) ==
  LET held == pressed /\ button \in DOMAIN p.buttonStates /\ p.buttonStates[button].Pressed
      p1 == [p EXCEPT !.buttonStates =
               (button :> [Pressed |-> pressed,
                           PressTime |-> IF held THEN @[button].PressTime ELSE t]) @@ @]
  IN IF pressed
       THEN checkSequences(checkChords(addToSequenceBuffer(p1, button, t), t), t)
       ELSE checkChordReleases(p1)

\* updateButtonState
updateButtonState(p, button, pressed, t) ==
  LET p1 == [p EXCEPT !.buttonStates =
               (button :> [Pressed |-> pressed, PressTime |-> t]) @@ @]
  IN IF pressed
       THEN checkSequences(checkChords(addToSequenceBuffer(p1, button, t), t), t)
       ELSE checkChordReleases(p1)


\* createEvent handing back every Event as a press
createEventAlwaysPressed(p, button, pressed, source, rawCode, t) ==
  [p |-> updateButtonState(p, button, pressed, t),
   ret |-> <<Event(button, TRUE, source, rawCode)>>]

\* createEvent: the state update, then the Event handed back
createEvent(p, button, pressed, source, rawCode, t) ==
  [p |-> updateButtonState(p, button, pressed, t),
   ret |-> <<Event(button, pressed, source, rawCode)>>]

\* What one dispatch of ProcessSDLEvent leaves behind: the combo-detection
\* fields, the axis and hat states, the internal queue, the returned event
\* (<< >> for nil).
Outcome(p, axes, hats, queue, ret) ==
  [p |-> p, axisStates |-> axes, hatStates |-> hats, eventQueue |-> queue, ret |-> ret]

Nothing(p) == Outcome(p, axisStates, hatStates, eventQueue, << >>)

Returned(c) == Outcome(c.p, axisStates, hatStates, eventQueue, c.ret)

\* keyboardCase using the zero VirtualButton for a key without an entry
keyboardCaseZeroButton(p, e, t) ==
  IF exists(mapping.KeyboardMap, e.Code)
    THEN Returned(createEvent(p, mapping.KeyboardMap[e.Code], e.Down, SourceKeyboard, e.Code, t))
    ELSE Returned(createEvent(p, "Unassigned", e.Down, SourceKeyboard, e.Code, t))

\* case *sdl.KeyboardEvent
keyboardCase(p, e, t) ==
  IF exists(mapping.KeyboardMap, e.Code)
    THEN Returned(createEvent(p, mapping.KeyboardMap[e.Code], e.Down, SourceKeyboard, e.Code, t))
    ELSE Nothing(p)

\* case *sdl.ControllerButtonEvent
controllerButtonCase(p, e, t) ==
  IF exists(mapping.ControllerButtonMap, e.Code)
    THEN Returned(createEvent(p, mapping.ControllerButtonMap[e.Code], e.Down, SourceController, e.Code, t))
    ELSE Nothing(p)

\* case *sdl.JoyButtonEvent
joyButtonCase(p, e, t) ==
  IF exists(mapping.JoystickButtonMap, e.Code)
    THEN Returned(createEvent(p, mapping.JoystickButtonMap[e.Code], e.Down, SourceJoystick, e.Code, t))
    ELSE Nothing(p)

\* hatQueuedPress with the press returned to nobody: the queue append left out
hatQueuedPressDropped(p, e, t) ==
  IF e.Value # HAT_CENTERED /\ exists(mapping.JoystickHatMap, e.Value)
    THEN [p |-> updateButtonState(p, mapping.JoystickHatMap[e.Value], TRUE, t),
          queue |-> eventQueue]
    ELSE [p |-> p, queue |-> eventQueue]

\* hatQueuedPress that appends the press to the queue twice
hatQueuedPressTwice(p, e, t) ==
  IF e.Value # HAT_CENTERED /\ exists(mapping.JoystickHatMap, e.Value)
    THEN [p |-> updateButtonState(p, mapping.JoystickHatMap[e.Value], TRUE, t),
          queue |-> eventQueue \o
                    <<Event(mapping.JoystickHatMap[e.Value], TRUE, SourceHatSwitch, e.Value),
                      Event(mapping.JoystickHatMap[e.Value], TRUE, SourceHatSwitch, e.Value)>>]
    ELSE [p |-> p, queue |-> eventQueue]

\* The press queued by a hat direction change: the button state is updated
\* at once, the Event waits in the queue.
hatQueuedPress(p, e, t) ==
  LET updated == updateButtonState(p, mapping.JoystickHatMap[e.Value], TRUE, t)
  IN IF e.Value # HAT_CENTERED /\ exists(mapping.JoystickHatMap, e.Value)
       THEN [p |-> updated,
             queue |-> IF updated.panic THEN eventQueue
                       ELSE Append(eventQueue,
                                   Event(mapping.JoystickHatMap[e.Value], TRUE,
                                         SourceHatSwitch, e.Value))]
       ELSE [p |-> p, queue |-> eventQueue]

\* joyHatCase whose release on a change of value carries the new value as
\* its RawCode
joyHatCaseRawCodeOfNew(p, e, t) ==
  LET previousValue == hatStates[e.Code]
      hats == [hatStates EXCEPT ![e.Code] = e.Value]
  IN IF previousValue # HAT_CENTERED /\ previousValue # e.Value
          /\ exists(mapping.JoystickHatMap, previousValue)
       THEN LET q == hatQueuedPress(p, e, t)
                c == createEvent(q.p, mapping.JoystickHatMap[previousValue], FALSE,
                                 SourceHatSwitch, e.Value, t)
            IN Outcome(c.p, axisStates, hats, q.queue, c.ret)
       ELSE IF e.Value # HAT_CENTERED /\ exists(mapping.JoystickHatMap, e.Value)
         THEN LET c == createEvent(p, mapping.JoystickHatMap[e.Value], TRUE,
                                   SourceHatSwitch, e.Value, t)
              IN Outcome(c.p, axisStates, hats, eventQueue, c.ret)
         ELSE IF e.Value = HAT_CENTERED /\ previousValue # HAT_CENTERED
                 /\ exists(mapping.JoystickHatMap, previousValue)
           THEN LET c == createEvent(p, mapping.JoystickHatMap[previousValue], FALSE,
                                     SourceHatSwitch, previousValue, t)
                IN Outcome(c.p, axisStates, hats, eventQueue, c.ret)
           ELSE Outcome(p, axisStates, hats, eventQueue, << >>)

\* case *sdl.JoyHatEvent
joyHatCase(p, e, t) ==
  LET previousValue == hatStates[e.Code]
      hats == [hatStates EXCEPT ![e.Code] = e.Value]
  IN IF previousValue # HAT_CENTERED /\ previousValue # e.Value
          /\ exists(mapping.JoystickHatMap, previousValue)
       THEN LET q == hatQueuedPress(p, e, t)
                c == createEvent(q.p, mapping.JoystickHatMap[previousValue], FALSE,
                                 SourceHatSwitch, previousValue, t)
            IN IF q.p.panic THEN Outcome(q.p, axisStates, hats, q.queue, << >>)
               ELSE Outcome(c.p, axisStates, hats, q.queue, c.ret)
       ELSE IF e.Value # HAT_CENTERED /\ exists(mapping.JoystickHatMap, e.Value)
         THEN LET c == createEvent(p, mapping.JoystickHatMap[e.Value], TRUE,
                                   SourceHatSwitch, e.Value, t)
              IN Outcome(c.p, axisStates, hats, eventQueue, c.ret)
         ELSE IF e.Value = HAT_CENTERED /\ previousValue # HAT_CENTERED
                 /\ exists(mapping.JoystickHatMap, previousValue)
           THEN LET c == createEvent(p, mapping.JoystickHatMap[previousValue], FALSE,
                                     SourceHatSwitch, previousValue, t)
                IN Outcome(c.p, axisStates, hats, eventQueue, c.ret)
           ELSE Outcome(p, axisStates, hats, eventQueue, << >>)

\* axisNewState with the threshold itself counted as crossed
axisNewStateInclusive(value, threshold) ==
  IF value >= threshold THEN 1
  ELSE IF value <= NegInt16(threshold) THEN -1
  ELSE 0

\* newState of an axis sample
axisNewState(value, threshold) ==
  IF value > threshold THEN 1
  ELSE IF value < NegInt16(threshold) THEN -1
  ELSE 0

\* case *sdl.ControllerAxisEvent and case *sdl.JoyAxisEvent: the same code,
\* with the Source of the event type
axisCase(p, e, source, t) ==
  IF ~exists(mapping.JoystickAxisMap, e.Code)
    THEN Nothing(p)
    ELSE
      LET axisConfig == mapping.JoystickAxisMap[e.Code]
          previousState == axisStates[e.Code]
          newState == axisNewState(e.Value, axisConfig.Threshold)
          axes == [axisStates EXCEPT ![e.Code] = newState]
          button == IF previousState = 1 THEN axisConfig.PositiveButton
                    ELSE IF previousState = -1 THEN axisConfig.NegativeButton
                    ELSE IF newState = 1 THEN axisConfig.PositiveButton
                    ELSE axisConfig.NegativeButton
          c == createEvent(p, button, previousState = 0, source, e.Code, t)
      IN IF newState = previousState
           THEN Nothing(p)
           ELSE Outcome(c.p, axes, hatStates, eventQueue, c.ret)

\* The type switch of ProcessSDLEvent
dispatch(p, e, t) ==
  CASE e.Type = "Keyboard" -> keyboardCase(p, e, t)
    [] e.Type = "ControllerButton" -> controllerButtonCase(p, e, t)
    [] e.Type = "JoyHat" -> joyHatCase(p, e, t)
    [] e.Type = "ControllerAxis" -> axisCase(p, e, SourceController, t)
    [] e.Type = "JoyButton" -> joyButtonCase(p, e, t)
    [] e.Type = "JoyAxis" -> axisCase(p, e, SourceJoystick, t)
    [] OTHER -> Nothing(p)

-----------------------------------------------------------------------------
(* The operations of the Processor *)

\* The record of a call: the operation, its arguments, what it returned.
\* found holds what UnregisterCombo and ClearCombos met: the numbers of
\* registered combos and of buffered presses before the call; data is the
\* byte slice given to SetInputMappingBytes or LoadInputMappingFromBytes;
\* seen is what the OnTrigger callbacks of chords found, one entry for each
\* run and in the order they ran; panic tells that the call ended in a
\* run-time panic instead of returning (it hands back no event then).
NothingFound == [combos |-> 0, presses |-> 0]

Call(op, raw, ret, err, id, buttons) ==
  [op |-> op, raw |-> raw, ret |-> ret, err |-> err, id |-> id, buttons |-> buttons,
   found |-> NothingFound, data |-> NoBytes, seen |-> << >>, panic |-> FALSE]

Found == [combos |-> Len(registeredCombos), presses |-> Len(sequenceBuffer)]

NoCall == Call("none", NoRaw, << >>, FALSE, "", << >>)

\* ProcessSDLEvent that records the value of a hat sample also when it hands
\* out a queued event
ProcessSDLEventRecordingHat(e) ==
  IF Len(eventQueue) > 0
    THEN /\ eventQueue' = Tail(eventQueue)
         /\ hatStates' = IF e.Type = "JoyHat" THEN [hatStates EXCEPT ![e.Code] = e.Value]
                          ELSE hatStates
         /\ last' = Call("ProcessSDLEvent", e, <<Head(eventQueue)>>, FALSE, "", << >>)
         /\ fired' = << >>
         /\ called' = << >>
         /\ UNCHANGED <<inputMappingBytes, environ, mapping, axisStates, buttonStates,
                        registeredCombos, comboEventQueue, sequenceBuffer, now>>
    ELSE \E r \in {dispatch(ip, e, now)} :
            /\ axisStates' = r.axisStates
            /\ hatStates' = r.hatStates
            /\ eventQueue' = r.eventQueue
            /\ buttonStates' = r.p.buttonStates
            /\ registeredCombos' = r.p.registeredCombos
            /\ comboEventQueue' = r.p.comboEventQueue
            /\ sequenceBuffer' = r.p.sequenceBuffer
            /\ fired' = r.p.fired
            /\ called' = r.p.called
            /\ last' = [Call("ProcessSDLEvent", e, IF r.p.panic THEN << >> ELSE r.ret,
                              FALSE, "", << >>)
                          EXCEPT !.seen = r.p.seen, !.panic = r.p.panic]
            /\ UNCHANGED <<inputMappingBytes, environ, mapping, now>>

\* ProcessSDLEvent
ProcessSDLEvent(e) ==
  IF Len(eventQueue) > 0
    THEN /\ eventQueue' = Tail(eventQueue)
         /\ last' = Call("ProcessSDLEvent", e, <<Head(eventQueue)>>, FALSE, "", << >>)
         /\ fired' = << >>
         /\ called' = << >>
         /\ UNCHANGED <<inputMappingBytes, environ, mapping, axisStates, hatStates, buttonStates, registeredCombos,
                        comboEventQueue, sequenceBuffer, now>>
    ELSE \E r \in {dispatch(ip, e, now)} :
            /\ axisStates' = r.axisStates
            /\ hatStates' = r.hatStates
            /\ eventQueue' = r.eventQueue
            /\ buttonStates' = r.p.buttonStates
            /\ registeredCombos' = r.p.registeredCombos
            /\ comboEventQueue' = r.p.comboEventQueue
            /\ sequenceBuffer' = r.p.sequenceBuffer
            /\ fired' = r.p.fired
            /\ called' = r.p.called
            /\ last' = [Call("ProcessSDLEvent", e, IF r.p.panic THEN << >> ELSE r.ret,
                              FALSE, "", << >>)
                          EXCEPT !.seen = r.p.seen, !.panic = r.p.panic]
            /\ UNCHANGED <<inputMappingBytes, environ, mapping, now>>

Combo(id, type, buttons, window, timeout, strict, onTrigger, onRelease) ==
  [ID |-> id, Type |-> type, Buttons |-> buttons, Window |-> window,
   Timeout |-> timeout, Strict |-> strict, OnTrigger |-> onTrigger,
   OnRelease |-> onRelease, Body |-> Observes, active |-> FALSE]

\* The combo with the body its options give to the callbacks
withBody(combo, opts) ==
  IF "Body" \in DOMAIN opts THEN [combo EXCEPT !.Body = opts.Body] ELSE combo

\* RegisterChord without the test of the number of buttons
RegisterChordUnchecked(id, buttons, opts) ==
  /\ registeredCombos' =
       Append(registeredCombos,
              Combo(id, ComboTypeChord, buttons,
                    IF opts.Window = 0 THEN DefaultWindow ELSE opts.Window,
                    0, FALSE, opts.OnTrigger, opts.OnRelease))
  /\ last' = Call("RegisterChord", NoRaw, << >>, FALSE, id, buttons)
  /\ fired' = << >>
  /\ called' = << >>
  /\ UNCHANGED <<inputMappingBytes, environ, mapping, axisStates, hatStates, eventQueue, buttonStates,
                 comboEventQueue, sequenceBuffer, now>>

\* RegisterChord
RegisterChord(id, buttons, opts) ==
  /\ registeredCombos' =
       IF Len(buttons) < 2 THEN registeredCombos
       ELSE Append(registeredCombos,
                   withBody(Combo(id, ComboTypeChord, buttons,
                                  IF opts.Window = 0 THEN DefaultWindow ELSE opts.Window,
                                  0, FALSE, opts.OnTrigger, opts.OnRelease), opts))
  /\ last' = Call("RegisterChord", NoRaw, << >>, Len(buttons) < 2, id, buttons)
  /\ fired' = << >>
  /\ called' = << >>
  /\ UNCHANGED <<inputMappingBytes, environ, mapping, axisStates, hatStates, eventQueue, buttonStates,
                 comboEventQueue, sequenceBuffer, now>>

\* RegisterSequence storing the timeout as given, zero included
RegisterSequenceTimeoutAsGiven(id, buttons, opts) ==
  /\ registeredCombos' =
       IF Len(buttons) < 2 THEN registeredCombos
       ELSE Append(registeredCombos,
                   withBody(Combo(id, ComboTypeSequence, buttons, 0, opts.Timeout,
                                  opts.Strict, opts.OnTrigger, FALSE), opts))
  /\ last' = Call("RegisterSequence", NoRaw, << >>, Len(buttons) < 2, id, buttons)
  /\ fired' = << >>
  /\ called' = << >>
  /\ UNCHANGED <<inputMappingBytes, environ, mapping, axisStates, hatStates, eventQueue, buttonStates,
                 comboEventQueue, sequenceBuffer, now>>

\* RegisterSequence
RegisterSequence(id, buttons, opts) ==
  /\ registeredCombos' =
       IF Len(buttons) < 2 THEN registeredCombos
       ELSE Append(registeredCombos,
                   withBody(Combo(id, ComboTypeSequence, buttons, 0,
                                  IF opts.Timeout = 0 THEN DefaultTimeout ELSE opts.Timeout,
                                  opts.Strict, opts.OnTrigger, FALSE), opts))
  /\ last' = Call("RegisterSequence", NoRaw, << >>, Len(buttons) < 2, id, buttons)
  /\ fired' = << >>
  /\ called' = << >>
  /\ UNCHANGED <<inputMappingBytes, environ, mapping, axisStates, hatStates, eventQueue, buttonStates,
                 comboEventQueue, sequenceBuffer, now>>

\* UnregisterCombo removing the first combo when none has the ID
UnregisterComboOrFirst(id) ==
  /\ registeredCombos' =
       IF registeredCombos = << >> THEN registeredCombos
       ELSE IF firstWithID(registeredCombos, id) = 0 THEN Tail(registeredCombos)
       ELSE removeAt(registeredCombos, firstWithID(registeredCombos, id))
  /\ last' = [Call("UnregisterCombo", NoRaw, << >>, FALSE, id, << >>) EXCEPT !.found = Found]
  /\ fired' = << >>
  /\ called' = << >>
  /\ UNCHANGED <<inputMappingBytes, environ, mapping, axisStates, hatStates, eventQueue,
                 buttonStates, comboEventQueue, sequenceBuffer, now>>

\* UnregisterCombo
UnregisterCombo(id) ==
  /\ registeredCombos' =
       IF firstWithID(registeredCombos, id) = 0 THEN registeredCombos
       ELSE removeAt(registeredCombos, firstWithID(registeredCombos, id))
  /\ last' = [Call("UnregisterCombo", NoRaw, << >>, FALSE, id, << >>) EXCEPT !.found = Found]
  /\ fired' = << >>
  /\ called' = << >>
  /\ UNCHANGED <<inputMappingBytes, environ, mapping, axisStates, hatStates, eventQueue, buttonStates,
                 comboEventQueue, sequenceBuffer, now>>

\* ClearCombos leaving the sequence buffer as it is
ClearCombosKeepsBuffer ==
  /\ registeredCombos' = << >>
  /\ last' = [Call("ClearCombos", NoRaw, << >>, FALSE, "", << >>) EXCEPT !.found = Found]
  /\ fired' = << >>
  /\ called' = << >>
  /\ UNCHANGED <<inputMappingBytes, environ, mapping, axisStates, hatStates, eventQueue,
                 buttonStates, comboEventQueue, sequenceBuffer, now>>

\* ClearCombos
ClearCombos ==
  /\ registeredCombos' = << >>
  /\ sequenceBuffer' = << >>
  /\ last' = [Call("ClearCombos", NoRaw, << >>, FALSE, "", << >>) EXCEPT !.found = Found]
  /\ fired' = << >>
  /\ called' = << >>
  /\ UNCHANGED <<inputMappingBytes, environ, mapping, axisStates, hatStates, eventQueue, buttonStates,
                 comboEventQueue, now>>

\* ProcessComboEvent handing out the newest pending event
ProcessComboEventNewestFirst ==
  /\ comboEventQueue' =
       IF Len(comboEventQueue) > 0
         THEN SubSeq(comboEventQueue, 1, Len(comboEventQueue) - 1) ELSE comboEventQueue
  /\ last' = Call("ProcessComboEvent", NoRaw,
                  IF Len(comboEventQueue) > 0
                    THEN <<comboEventQueue[Len(comboEventQueue)]>> ELSE << >>,
                  FALSE, "", << >>)
  /\ fired' = << >>
  /\ called' = << >>
  /\ UNCHANGED <<inputMappingBytes, environ, mapping, axisStates, hatStates, eventQueue,
                 buttonStates, registeredCombos, sequenceBuffer, now>>

\* ProcessComboEvent (ret: the event in the ret field's place, as a ComboEvent)
ProcessComboEvent ==
  /\ comboEventQueue' = IF Len(comboEventQueue) > 0 THEN Tail(comboEventQueue) ELSE comboEventQueue
  /\ last' = Call("ProcessComboEvent", NoRaw,
                  IF Len(comboEventQueue) > 0 THEN <<Head(comboEventQueue)>> ELSE << >>,
                  FALSE, "", << >>)
  /\ fired' = << >>
  /\ called' = << >>
  /\ UNCHANGED <<inputMappingBytes, environ, mapping, axisStates, hatStates, eventQueue, buttonStates,
                 registeredCombos, sequenceBuffer, now>>

\* SetInputMappingBytes
SetInputMappingBytes(data) ==
  /\ inputMappingBytes' = data
  /\ last' = [Call("SetInputMappingBytes", NoRaw, << >>, FALSE, "", << >>) EXCEPT !.data = data]
  /\ fired' = << >>
  /\ called' = << >>
  /\ UNCHANGED <<environ, mapping, axisStates, hatStates, eventQueue, buttonStates,
                 registeredCombos, comboEventQueue, sequenceBuffer, now>>

\* A call of GetInputMapping (ret: the *InputMapping it returns)
GetInputMappingCall ==
  \E r \in GetInputMapping(inputMappingBytes, environ) :
    /\ last' = Call("GetInputMapping", NoRaw, r, FALSE, "", << >>)
    /\ fired' = << >>
    /\ called' = << >>
    /\ UNCHANGED <<inputMappingBytes, environ, mapping, axisStates, hatStates, eventQueue,
                   buttonStates, registeredCombos, comboEventQueue, sequenceBuffer, now>>

\* A call of ToJSON on the mapping of the Processor (ret: the bytes)
ToJSONCall ==
  /\ last' = Call("ToJSON", NoRaw, <<ToJSON(mapping)>>, FALSE, "", << >>)
  /\ fired' = << >>
  /\ called' = << >>
  /\ UNCHANGED <<inputMappingBytes, environ, mapping, axisStates, hatStates, eventQueue,
                 buttonStates, registeredCombos, comboEventQueue, sequenceBuffer, now>>

\* A call of LoadInputMappingFromBytes (ret: the *InputMapping, err: the error)
LoadInputMappingFromBytesCall(data) ==
  \E r \in LoadInputMappingFromBytes(data) :
    /\ last' = [Call("LoadInputMappingFromBytes", NoRaw, r.mapping, r.err, "", << >>)
                  EXCEPT !.data = data]
    /\ fired' = << >>
    /\ called' = << >>
    /\ UNCHANGED <<inputMappingBytes, environ, mapping, axisStates, hatStates, eventQueue,
                   buttonStates, registeredCombos, comboEventQueue, sequenceBuffer, now>>

\* Time passes between two calls.  The clock starts with the first input:
\* the code reads differences of times only.
Tick ==
  /\ now < MaxTime
  /\ buttonStates # << >>
  /\ now' = now + 1
  /\ last' = NoCall
  /\ fired' = << >>
  /\ called' = << >>
  /\ UNCHANGED <<inputMappingBytes, environ, mapping, axisStates, hatStates, eventQueue, buttonStates,
                 registeredCombos, comboEventQueue, sequenceBuffer>>

-----------------------------------------------------------------------------
(* The Processor after NewInputProcessor *)

Hats == {0}

Axes == {0, 1, 2}

\* NewInputProcessor when GetInputMapping returns m.  A mapping other than
\* the default one has been handed over by SetInputMappingBytes.
NewInputProcessor(m) ==
  /\ inputMappingBytes = (IF m = DefaultInputMapping THEN NoBytes ELSE ToJSON(m))
  /\ environ = NoEnviron
  /\ mapping = m
  /\ axisStates = [a \in Axes |-> 0]
  /\ hatStates = [h \in Hats |-> HAT_CENTERED]
  /\ eventQueue = << >>
  /\ buttonStates = << >>
  /\ registeredCombos = << >>
  /\ comboEventQueue = << >>
  /\ sequenceBuffer = << >>
  /\ now = 0
  /\ last = NoCall
  /\ fired = << >>
  /\ called = << >>

\* The calls explored stop when the buffer or the combo queue reaches its bound
Within == Len(sequenceBuffer) < MaxBuf /\ Len(comboEventQueue) < MaxQueue


-----------------------------------------------------------------------------
(* Hat switches: samples of one hat and joystick buttons under a custom      *)
(* mapping.  No combo is registered, so no time is read: the clock stands. *)

HatValues == {0, 1, 2, 3, 4}

HatSamples == {RawEvent("JoyHat", h, FALSE, v) : h \in Hats, v \in HatValues}

JoyButtonEvents == {RawEvent("JoyButton", c, d, 0) : c \in {0, 2}, d \in BOOLEAN}

InitHat ==
  \E m \in {CustomInputMapping, DiagonalInputMapping} : NewInputProcessor(m)

HatSample == \E e \in HatSamples : Within /\ ProcessSDLEvent(e)

JoyButton == \E e \in JoyButtonEvents : Within /\ ProcessSDLEvent(e)

NextHat == HatSample \/ JoyButton \/ ClearCombos

SpecHat == InitHat /\ [][NextHat]_vars


-----------------------------------------------------------------------------
(* Axes: controller and joystick samples of the same axes *)

AxisValues == {-32768, -16001, -16000, 0, 16000, 16001}

AxisSamples ==
  {RawEvent(ty, a, FALSE, v) : ty \in {"ControllerAxis", "JoyAxis"}, a \in Axes, v \in AxisValues}

InitAxis == NewInputProcessor(CustomInputMapping)

AxisSample == \E e \in AxisSamples : Within /\ ProcessSDLEvent(e)

NextAxis == AxisSample \/ ClearCombos

SpecAxis == InitAxis /\ [][NextAxis]_vars

-----------------------------------------------------------------------------
(* Chords: presses and releases of the keys a and b and presses (with       *)
(* auto-repeat) of the key x under the default mapping; two chords, each    *)
(* registered at any moment under its own ID.                               *)

KeyEvents ==
  {RawEvent("Keyboard", c, d, 0) : c \in {97, 98}, d \in BOOLEAN}
    \cup {RawEvent("Keyboard", 120, TRUE, 0)}

ChordRegs ==
  {[id |-> "c1", buttons |-> <<"A", "B">>,
    opts |-> [Window |-> 0, OnTrigger |-> TRUE, OnRelease |-> TRUE]],
   [id |-> "c2", buttons |-> <<"B", "X">>,
    opts |-> [Window |-> 1, OnTrigger |-> FALSE, OnRelease |-> FALSE]]}

InitChord == NewInputProcessor(DefaultInputMapping)

Key == \E e \in KeyEvents : Within /\ ProcessSDLEvent(e)

RegChord ==
  \E r \in ChordRegs :
    firstWithID(registeredCombos, r.id) = 0 /\ RegisterChord(r.id, r.buttons, r.opts)

NextChord == Key \/ RegChord \/ Tick

SpecChord == InitChord /\ [][NextChord]_vars


-----------------------------------------------------------------------------
(* Sequences: presses of the keys up, down and x under the default mapping; *)
(* two sequences over the same buttons, one strict, each registered at any  *)
(* moment under its own ID.                                                 *)

SeqKeyEvents == {RawEvent("Keyboard", c, TRUE, 0) : c \in {1073741906, 1073741905, 120}}

SeqRegs ==
  {[id |-> "s1", buttons |-> <<"Up", "Down">>,
    opts |-> [Timeout |-> 1, Strict |-> FALSE, OnTrigger |-> TRUE]],
   [id |-> "s2", buttons |-> <<"Up", "Down">>,
    opts |-> [Timeout |-> 1, Strict |-> TRUE, OnTrigger |-> FALSE]]}

InitSeq == NewInputProcessor(DefaultInputMapping)

SeqKey == \E e \in SeqKeyEvents : Within /\ ProcessSDLEvent(e)

RegSeq ==
  \E r \in SeqRegs :
    firstWithID(registeredCombos, r.id) = 0 /\ RegisterSequence(r.id, r.buttons, r.opts)

NextSeq == SeqKey \/ RegSeq \/ Tick

SpecSeq == InitSeq /\ [][NextSeq]_vars

-----------------------------------------------------------------------------
(* Registration: chords and sequences registered, unregistered and cleared  *)
(* under any ID, also one already in use, between presses of two keys.      *)

RegIDs == {"c1", "c2"}

RegButtons == {<< >>, <<"A">>, <<"A", "B">>}

RegKeyEvents == {RawEvent("Keyboard", c, d, 0) : c \in {97, 98}, d \in BOOLEAN}

InitReg == NewInputProcessor(DefaultInputMapping)

WithinReg == Len(sequenceBuffer) < MaxPresses /\ Len(comboEventQueue) < MaxPending

RegKey == \E e \in RegKeyEvents : WithinReg /\ ProcessSDLEvent(e)

RegAnyChord ==
  \E id \in RegIDs, b \in RegButtons :
    /\ Len(registeredCombos) < MaxCombos
    /\ RegisterChord(id, b, [Window |-> 0, OnTrigger |-> TRUE, OnRelease |-> TRUE])

RegAnySequence ==
  \E id \in RegIDs, b \in RegButtons :
    /\ Len(registeredCombos) < MaxCombos
    /\ RegisterSequence(id, b, [Timeout |-> 0, Strict |-> FALSE, OnTrigger |-> TRUE])

Unregister == \E id \in RegIDs : UnregisterCombo(id)

NextReg == RegKey \/ RegAnyChord \/ RegAnySequence \/ Unregister \/ ClearCombos

SpecReg == InitReg /\ [][NextReg]_vars


-----------------------------------------------------------------------------
(* Polling the combo queue: a chord and a sequence over the same two        *)
(* buttons, presses and releases of their keys, and the widget's calls of   *)
(* ProcessComboEvent.                                                       *)

PollRegs ==
  {[id |-> "c1", type |-> ComboTypeChord, buttons |-> <<"A", "B">>],
   [id |-> "s1", type |-> ComboTypeSequence, buttons |-> <<"A", "B">>]}

InitPoll == NewInputProcessor(DefaultInputMapping)

PollKey == \E e \in RegKeyEvents : Within /\ ProcessSDLEvent(e)

PollRegister ==
  \E r \in PollRegs :
    /\ firstWithID(registeredCombos, r.id) = 0
    /\ IF r.type = ComboTypeChord
         THEN RegisterChord(r.id, r.buttons, [Window |-> 0, OnTrigger |-> TRUE, OnRelease |-> TRUE])
         ELSE RegisterSequence(r.id, r.buttons, [Timeout |-> 0, Strict |-> FALSE, OnTrigger |-> TRUE])

Poll == ProcessComboEvent

NextPoll == PollKey \/ PollRegister \/ Poll

SpecPoll == InitPoll /\ [][NextPoll]_vars

-----------------------------------------------------------------------------
(* Buttons: keys, controller buttons and joystick buttons, mapped and       *)
(* unmapped, under the default mapping and under a custom one, whose hat    *)
(* can leave a press queued when the button event arrives.                  *)

ButtonEvents ==
  {RawEvent(ty, 0, d, 0) : ty \in {"ControllerButton", "JoyButton"}, d \in BOOLEAN}
    \cup {RawEvent("Keyboard", 97, d, 0) : d \in BOOLEAN}
    \cup {RawEvent("Keyboard", 122, TRUE, 0), RawEvent("ControllerButton", 7, TRUE, 0),
          RawEvent("JoyButton", 2, TRUE, 0)}

ButtonHatSamples == {RawEvent("JoyHat", 0, FALSE, v) : v \in {0, 1, 2}}

InitButtons ==
  \E m \in {DefaultInputMapping, CustomInputMapping} : NewInputProcessor(m)

Button == \E e \in ButtonEvents : Within /\ ProcessSDLEvent(e)

ButtonHat == \E e \in ButtonHatSamples : Within /\ ProcessSDLEvent(e)

NextButtons == Button \/ ButtonHat

SpecButtons == InitButtons /\ [][NextButtons]_vars

-----------------------------------------------------------------------------
(* The mapping: byte slices and files, well-formed and not, from which the  *)
(* Processor resolves its mapping at construction; saving a mapping and     *)
(* loading it again.                                                        *)

\* A document with an entry in each of the six tables
FullDocument ==
  Mapping(97 :> 5 @@ 1073741906 :> 1, 0 :> 6 @@ 11 :> 1, 1 :> 1 @@ 4 :> 2,
          0 :> [PositiveButton |-> 4, NegativeButton |-> 3, Threshold |-> 16000] @@
          1 :> [PositiveButton |-> 2, NegativeButton |-> 1, Threshold |-> -1],
          0 :> 5 @@ 1 :> 6, 1 :> 1 @@ 2 :> 4)

\* A document with codes beyond 255 and a button ordinal without a name
WideDocument ==
  Mapping(97 :> 40, << >>, 257 :> 1,
          256 :> [PositiveButton |-> 4, NegativeButton |-> 40, Threshold |-> 0],
          300 :> 6, 258 :> 4 @@ 1 :> 1)

Blobs ==
  {NoBytes, MalformedBytes, Bytes("json", EmptyMapping), Bytes("json", FullDocument),
   Bytes("json", WideDocument)}

Files ==
  {File("/mapping.json", FALSE, NoBytes)}
    \cup {File("/mapping.json", TRUE, d) : d \in Blobs}

Environs == {Environ(p, f) : p \in {"", "/mapping.json", "/missing.json"}, f \in Files}

InitMapping ==
  \E b \in Blobs, env \in Environs :
    \E r \in GetInputMapping(b, env) :
      /\ r # << >>
      /\ inputMappingBytes = b
      /\ environ = env
      /\ mapping = r[1]
      /\ axisStates = [a \in Axes |-> 0]
      /\ hatStates = [h \in Hats |-> HAT_CENTERED]
      /\ eventQueue = << >>
      /\ buttonStates = << >>
      /\ registeredCombos = << >>
      /\ comboEventQueue = << >>
      /\ sequenceBuffer = << >>
      /\ now = 0
      /\ last = NoCall
      /\ fired = << >>
      /\ called = << >>

SetBytes == \E d \in Blobs : SetInputMappingBytes(d)

Resolve == GetInputMappingCall

Save == ToJSONCall

Load ==
  \E d \in Blobs \cup (IF last.op = "ToJSON" THEN {last.ret[1]} ELSE {}) :
    LoadInputMappingFromBytesCall(d)

NextMapping == SetBytes \/ Resolve \/ Save \/ Load

SpecMapping == InitMapping /\ [][NextMapping]_vars

-----------------------------------------------------------------------------
(* The sequence buffer filling up: the key b pressed as the first press     *)
(* after the buffer was emptied, then the key a pressed and released any    *)
(* number of times; a sequence of the two buttons may be registered.        *)

BufferKeyEvents == {RawEvent("Keyboard", 97, d, 0) : d \in BOOLEAN}

InitBuffer == NewInputProcessor(DefaultInputMapping)

BufferKey ==
  \E e \in BufferKeyEvents : Len(comboEventQueue) < MaxQueue /\ ProcessSDLEvent(e)

BufferFirstKey ==
  /\ sequenceBuffer = << >>
  /\ Len(comboEventQueue) < MaxQueue
  /\ \E d \in BOOLEAN : ProcessSDLEvent(RawEvent("Keyboard", 98, d, 0))

BufferRegister ==
  /\ firstWithID(registeredCombos, "s1") = 0
  /\ RegisterSequence("s1", <<"B", "A">>, [Timeout |-> 0, Strict |-> FALSE, OnTrigger |-> TRUE])

NextBuffer == BufferKey \/ BufferFirstKey \/ BufferRegister \/ ClearCombos

SpecBuffer == InitBuffer /\ [][NextBuffer]_vars

-----------------------------------------------------------------------------
(* Chords over hat directions: samples of the hat, the joystick button of   *)
(* A, and two chords with callbacks, one over two directions of the hat,    *)
(* one over a direction and A, each registered or not before the first     *)
(* input.                                                                   *)

HatChordSamples == {RawEvent("JoyHat", 0, FALSE, v) : v \in {0, 1, 2}}

HatChordButtons == {RawEvent("JoyButton", 0, d, 0) : d \in BOOLEAN}

HatChordRegs ==
  {[id |-> "h1", buttons |-> <<"Up", "Right">>], [id |-> "h2", buttons |-> <<"Right", "A">>]}

InitHatChord == NewInputProcessor(CustomInputMapping)

HatChordSample == \E e \in HatChordSamples : Within /\ ProcessSDLEvent(e)

HatChordButton == \E e \in HatChordButtons : Within /\ ProcessSDLEvent(e)

HatChordRegister ==
  \E r \in HatChordRegs :
    /\ firstWithID(registeredCombos, r.id) = 0
    /\ buttonStates = << >>
    /\ RegisterChord(r.id, r.buttons, [Window |-> 0, OnTrigger |-> TRUE, OnRelease |-> TRUE])

NextHatChord == HatChordSample \/ HatChordButton \/ HatChordRegister \/ Tick

SpecHatChord == InitHatChord /\ [][NextHatChord]_vars

-----------------------------------------------------------------------------
(* An application that relies on the callbacks: a chord registered before   *)
(* the first input, the key a held, the key b pressed and released any      *)
(* number of times, and no call of ProcessComboEvent.  The combo queue is   *)
(* followed up to MaxGrowth entries.                                        *)

InitGrowth == NewInputProcessor(DefaultInputMapping)

GrowthRegister ==
  /\ registeredCombos = << >>
  /\ buttonStates = << >>
  /\ RegisterChord("c1", <<"A", "B">>, [Window |-> 0, OnTrigger |-> TRUE, OnRelease |-> TRUE])

GrowthHold ==
  /\ buttonStates = << >>
  /\ ProcessSDLEvent(RawEvent("Keyboard", 97, TRUE, 0))

GrowthKey ==
  /\ buttonStates # << >>
  /\ Len(comboEventQueue) < MaxGrowth
  /\ \E d \in BOOLEAN : ProcessSDLEvent(RawEvent("Keyboard", 98, d, 0))

NextGrowth == GrowthRegister \/ GrowthHold \/ GrowthKey

SpecGrowth == InitGrowth /\ [][NextGrowth]_vars

-----------------------------------------------------------------------------
(* Callbacks that remove combos: two chords and a sequence over the buttons *)
(* A and B, registered in any order before the first input, the callbacks   *)
(* of c1 and s1 calling UnregisterCombo on their own combo or ClearCombos,  *)
(* then presses and releases of the two keys.  A call that panics ends the  *)
(* program.                                                                 *)

Bodies(id) == {Body("UnregisterCombo", id), Body("ClearCombos", "")}

InitReentrant == NewInputProcessor(DefaultInputMapping)

ReentrantChord ==
  \E id \in {"c1", "c2"} :
    \E body \in (IF id = "c1" THEN Bodies(id) ELSE {Observes}) :
      /\ buttonStates = << >>
      /\ firstWithID(registeredCombos, id) = 0
      /\ RegisterChord(id, <<"A", "B">>,
                       [Window |-> 0, OnTrigger |-> TRUE, OnRelease |-> TRUE, Body |-> body])

ReentrantSequence ==
  \E body \in Bodies("s1") :
    /\ buttonStates = << >>
    /\ firstWithID(registeredCombos, "s1") = 0
    /\ RegisterSequence("s1", <<"A", "B">>,
                        [Timeout |-> 0, Strict |-> FALSE, OnTrigger |-> TRUE, Body |-> body])

ReentrantKey ==
  \E e \in RegKeyEvents : ~last.panic /\ Within /\ ProcessSDLEvent(e)

NextReentrant == ReentrantChord \/ ReentrantSequence \/ ReentrantKey

SpecReentrant == InitReentrant /\ [][NextReentrant]_vars

-----------------------------------------------------------------------------
(* Long sequences: one of as many buttons as the buffer holds and one of    *)
(* one button more, registered before the first input; then the key b as    *)
(* the first press into an empty buffer and the key a any number of times.  *)

LongRegs ==
  {[id |-> "s20", buttons |-> [k \in 1..maxBufferSize |-> "A"]],
   [id |-> "s21", buttons |-> <<"B">> \o [k \in 1..maxBufferSize |-> "A"]]}

InitLong == NewInputProcessor(DefaultInputMapping)

LongRegister ==
  \E r \in LongRegs :
    /\ buttonStates = << >>
    /\ firstWithID(registeredCombos, r.id) = 0
    /\ RegisterSequence(r.id, r.buttons, [Timeout |-> 0, Strict |-> FALSE, OnTrigger |-> TRUE])

NextLong == BufferKey \/ BufferFirstKey \/ LongRegister

SpecLong == InitLong /\ [][NextLong]_vars

-----------------------------------------------------------------------------
(* Windows and timeouts: one chord and one sequence over A and B, each      *)
(* registered before the first input with a zero or a non-zero duration,    *)
(* then presses of the keys a and b with waits of 50ms, 100ms and 500ms     *)
(* between the calls.                                                       *)

DefaultsChords ==
  {[id |-> "c0", opts |-> [Window |-> 0, OnTrigger |-> TRUE, OnRelease |-> TRUE]],
   [id |-> "c3", opts |-> [Window |-> 3, OnTrigger |-> TRUE, OnRelease |-> TRUE]]}

DefaultsSequences ==
  {[id |-> "s0", opts |-> [Timeout |-> 0, Strict |-> FALSE, OnTrigger |-> TRUE]],
   [id |-> "s1", opts |-> [Timeout |-> 1, Strict |-> FALSE, OnTrigger |-> TRUE]]}

Waits == {1, 2, 10}

InitDefaults == NewInputProcessor(DefaultInputMapping)

DefaultsChord ==
  \E r \in DefaultsChords :
    /\ buttonStates = << >>
    /\ \A i \in DOMAIN registeredCombos : registeredCombos[i].Type # ComboTypeChord
    /\ RegisterChord(r.id, <<"A", "B">>, r.opts)

DefaultsSequence ==
  \E r \in DefaultsSequences :
    /\ buttonStates = << >>
    /\ \A i \in DOMAIN registeredCombos : registeredCombos[i].Type # ComboTypeSequence
    /\ RegisterSequence(r.id, <<"A", "B">>, r.opts)

DefaultsKey ==
  \E c \in {97, 98} : WithinReg /\ ProcessSDLEvent(RawEvent("Keyboard", c, TRUE, 0))

\* Time passes between two calls, by one of the waits
Wait ==
  \E d \in Waits :
    /\ now + d <= MaxWait
    /\ buttonStates # << >>
    /\ now' = now + d
    /\ last' = NoCall
    /\ fired' = << >>
    /\ called' = << >>
    /\ UNCHANGED <<inputMappingBytes, environ, mapping, axisStates, hatStates, eventQueue,
                   buttonStates, registeredCombos, comboEventQueue, sequenceBuffer>>

NextDefaults == DefaultsKey \/ DefaultsChord \/ DefaultsSequence \/ Wait

SpecDefaults == InitDefaults /\ [][NextDefaults]_vars

-----------------------------------------------------------------------------
(* What the claims speak of *)

\* The step is a call of ProcessSDLEvent that dispatches its raw event
\* (no queued event was pending)
Dispatched == last'.op = "ProcessSDLEvent" /\ eventQueue = << >>

\* The step is a call of ProcessSDLEvent that hands out a queued event
Drained == last'.op = "ProcessSDLEvent" /\ eventQueue # << >>

HatMapped(v) == v # HAT_CENTERED /\ v \in DOMAIN mapping.JoystickHatMap

HatEvent(v, pressed) == Event(mapping.JoystickHatMap[v], pressed, SourceHatSwitch, v)

\* The raw event moves its hat from one mapped direction to another one
HatDirectionChange(e) ==
  /\ e.Type = "JoyHat"
  /\ HatMapped(hatStates[e.Code])
  /\ HatMapped(e.Value)
  /\ hatStates[e.Code] # e.Value

AxisSource(e) == IF e.Type = "ControllerAxis" THEN SourceController ELSE SourceJoystick

\* The raw event is a sample of a mapped axis with a deadzone threshold >= 0
MappedAxisSample(e) ==
  /\ e.Type \in {"ControllerAxis", "JoyAxis"}
  /\ e.Code \in DOMAIN mapping.JoystickAxisMap
  /\ mapping.JoystickAxisMap[e.Code].Threshold >= 0

\* C2: for a mapped axis (threshold T >= 0): from centered a sample > T
\* returns one press of PositiveButton, while positive a sample > T returns
\* nothing, while positive a sample inside [-T, T] returns one release of
\* PositiveButton; the same with < -T and NegativeButton; nothing is queued.
C2_AxisPressRelease ==
  [][(Dispatched /\ MappedAxisSample(last'.raw)) =>
       LET e == last'.raw
           cfg == mapping.JoystickAxisMap[e.Code]
           T == cfg.Threshold
           prev == axisStates[e.Code]
           pos(pressed) == <<Event(cfg.PositiveButton, pressed, AxisSource(e), e.Code)>>
           neg(pressed) == <<Event(cfg.NegativeButton, pressed, AxisSource(e), e.Code)>>
       IN /\ eventQueue' = << >>
          /\ (prev = 0 /\ e.Value > T) =>
               last'.ret = pos(TRUE) /\ axisStates'[e.Code] = 1
          /\ (prev = 1 /\ e.Value > T) =>
               last'.ret = << >> /\ axisStates'[e.Code] = 1
          /\ (prev = 1 /\ e.Value >= -T /\ e.Value <= T) =>
               last'.ret = pos(FALSE) /\ axisStates'[e.Code] = 0
          /\ (prev = 0 /\ e.Value < -T) =>
               last'.ret = neg(TRUE) /\ axisStates'[e.Code] = -1
          /\ (prev = -1 /\ e.Value < -T) =>
               last'.ret = << >> /\ axisStates'[e.Code] = -1
          /\ (prev = -1 /\ e.Value >= -T /\ e.Value <= T) =>
               last'.ret = neg(FALSE) /\ axisStates'[e.Code] = 0
          /\ (prev = 0 /\ e.Value >= -T /\ e.Value <= T) =>
               last'.ret = << >> /\ axisStates'[e.Code] = 0]_vars

\* Axis 0 came back inside the deadzone after a press of Right: the call
\* returned the release, Right was pressed once and is released
C2_Witness ==
  /\ last.op = "ProcessSDLEvent"
  /\ last.raw = RawEvent("JoyAxis", 0, FALSE, 16000)
  /\ last.ret = <<Event("Right", FALSE, SourceJoystick, 0)>>
  /\ axisStates[0] = 0
  /\ Len(sequenceBuffer) = 1
  /\ sequenceBuffer[1].Button = "Right"


\* The step is a dispatching call that produces one press (one release) and
\* queues nothing: updateButtonState runs once in it
SinglePress ==
  Dispatched /\ eventQueue' = << >> /\ last'.ret # << >> /\ last'.ret[1].Pressed

SingleRelease ==
  Dispatched /\ eventQueue' = << >> /\ last'.ret # << >> /\ ~last'.ret[1].Pressed

\* The combo events the step appends to the combo queue
NewComboEvents ==
  SubSeq(comboEventQueue', Len(comboEventQueue) + 1, Len(comboEventQueue'))

Count(seq, x) == Cardinality({k \in DOMAIN seq : seq[k] = x})

Range(seq) == {seq[k] : k \in DOMAIN seq}

Max(S) == CHOOSE x \in S : \A y \in S : y <= x

Min(S) == CHOOSE x \in S : \A y \in S : x <= y

IsChord(c) == c.Type = ComboTypeChord

\* After the step every button of the chord is pressed, and the latest and
\* the earliest of their press times are at most Window apart
ChordSatisfied(c) ==
  /\ \A b \in Range(c.Buttons) : b \in DOMAIN buttonStates' /\ buttonStates'[b].Pressed
  /\ LET times == {buttonStates'[b].PressTime : b \in Range(c.Buttons)}
     IN Max(times) - Min(times) <= c.Window

\* The events appended in the step are those of the combos that fired in it,
\* one each and in that order, all with the given Triggered flag
NewEventsAre(triggered) ==
  NewComboEvents =
    [k \in DOMAIN fired' |->
       ComboEvent(registeredCombos[fired'[k]].ID, registeredCombos[fired'[k]].Type,
                  registeredCombos[fired'[k]].Buttons, triggered)]

\* C3: on a press, a registered chord that is not active becomes active and
\* enqueues exactly one ComboEvent with Triggered = true if and only if all
\* its buttons are pressed and their press times lie within Window; with
\* Window = 100ms (2 units), A at t and B at t + 1 trigger {A, B}, A at t and
\* B at t + 3 do not.
C3_ChordTriggerIff ==
  [][SinglePress =>
       /\ Len(registeredCombos') = Len(registeredCombos)
       /\ NewEventsAre(TRUE)
       /\ \A i \in DOMAIN registeredCombos :
            LET c == registeredCombos[i]
            IN (IsChord(c) /\ ~c.active) =>
                 /\ IF ChordSatisfied(c)
                      THEN registeredCombos'[i].active /\ Count(fired', i) = 1
                      ELSE ~registeredCombos'[i].active /\ Count(fired', i) = 0
                 /\ (/\ c.Buttons = <<"A", "B">>
                     /\ c.Window = 2
                     /\ last'.ret[1].Button = "B"
                     /\ "A" \in DOMAIN buttonStates
                     /\ buttonStates["A"].Pressed) =>
                      /\ now - buttonStates["A"].PressTime = 1 => Count(fired', i) = 1
                      /\ now - buttonStates["A"].PressTime = 3 => Count(fired', i) = 0]_vars

\* A was pressed at 0 and B at 50ms (1 unit): the chord {A, B} with the
\* default window is active and its triggered event is the last one queued
C3_Witness ==
  /\ last.op = "ProcessSDLEvent"
  /\ last.ret = <<Event("B", TRUE, SourceKeyboard, 98)>>
  /\ now = 1
  /\ "A" \in DOMAIN buttonStates
  /\ buttonStates["A"] = [Pressed |-> TRUE, PressTime |-> 0]
  /\ fired # << >>
  /\ registeredCombos[fired[1]].ID = "c1"
  /\ registeredCombos[fired[1]].active
  /\ comboEventQueue[Len(comboEventQueue)] = ComboEvent("c1", ComboTypeChord, <<"A", "B">>, TRUE)

\* C4: a call of ProcessSDLEvent made while a chord is active enqueues no
\* triggered event for that chord and does not invoke its OnTrigger: the
\* only event it can enqueue for it is its release.
C4_ActiveChordNotRetriggered ==
  [][last'.op = "ProcessSDLEvent" =>
       /\ Len(fired') = Len(NewComboEvents)
       /\ \A i \in DOMAIN registeredCombos :
            (IsChord(registeredCombos[i]) /\ registeredCombos[i].active) =>
              /\ Count(called', <<i, "OnTrigger">>) = 0
              /\ \A k \in DOMAIN fired' :
                   fired'[k] = i =>
                     /\ ~NewComboEvents[k].Triggered
                     /\ NewComboEvents[k].ComboID = registeredCombos[i].ID
              /\ Count(fired', i) = 0 => registeredCombos'[i].active]_vars

\* The chord c1 is active and was so before the last call, a press of one
\* of its own buttons (auto-repeat) or of another button
C4_Witness ==
  /\ last.op = "ProcessSDLEvent"
  /\ last.ret # << >>
  /\ last.ret[1].Pressed
  /\ \E i \in DOMAIN registeredCombos :
       /\ registeredCombos[i].ID = "c1"
       /\ registeredCombos[i].active
       /\ Count(fired, i) = 0
       /\ last.ret[1].Button = "A"

\* C5: the release of a button of an active chord enqueues exactly one
\* ComboEvent with Triggered = false for it, invokes its OnRelease once and
\* makes it inactive; a release enqueues nothing for any other chord, so
\* nothing for a chord already released; and a chord that is inactive
\* triggers on the press after which all its buttons are pressed within
\* Window.
C5_ChordReleaseOnce ==
  [][/\ SingleRelease =>
          /\ NewEventsAre(FALSE)
          /\ \A i \in DOMAIN registeredCombos :
               LET c == registeredCombos[i]
               IN IF IsChord(c) /\ c.active /\ last'.ret[1].Button \in Range(c.Buttons)
                    THEN /\ ~registeredCombos'[i].active
                         /\ Count(fired', i) = 1
                         /\ Count(called', <<i, "OnRelease">>) = (IF c.OnRelease THEN 1 ELSE 0)
                    ELSE /\ registeredCombos'[i] = c
                         /\ Count(fired', i) = 0
                         /\ Count(called', <<i, "OnRelease">>) = 0
     /\ SinglePress =>
          \A i \in DOMAIN registeredCombos :
            LET c == registeredCombos[i]
            IN (IsChord(c) /\ ~c.active /\ ChordSatisfied(c)) =>
                 /\ registeredCombos'[i].active
                 /\ Count(fired', i) = 1
                 /\ Count(called', <<i, "OnTrigger">>) = (IF c.OnTrigger THEN 1 ELSE 0)]_vars

\* The chord c1 was triggered, released and triggered again
C5_Witness ==
  /\ \E i \in DOMAIN registeredCombos :
       registeredCombos[i].ID = "c1" /\ registeredCombos[i].active
  /\ comboEventQueue =
       <<ComboEvent("c1", ComboTypeChord, <<"A", "B">>, TRUE),
         ComboEvent("c1", ComboTypeChord, <<"A", "B">>, FALSE),
         ComboEvent("c1", ComboTypeChord, <<"A", "B">>, TRUE)>>


IsSequence(c) == c.Type = ComboTypeSequence

\* The sequence buffer once the press of the step is appended to it
BufferWithPress ==
  LET b == Append(sequenceBuffer, [Button |-> last'.ret[1].Button, Time |-> now])
  IN IF Len(b) <= maxBufferSize THEN b
     ELSE [k \in 1..maxBufferSize |-> b[Len(b) - maxBufferSize + k]]

\* The last N entries of buf are the buttons of c in order, no two adjacent
\* ones more than Timeout apart
TailMatches(c, buf) ==
  LET N == Len(c.Buttons)
      at(k) == buf[Len(buf) - N + k]
  IN /\ Len(buf) >= N
     /\ \A k \in 1..N : at(k).Button = c.Buttons[k]
     /\ \A k \in 1..(N - 1) : at(k + 1).Time - at(k).Time <= c.Timeout

\* An entry of buf before the last N was recorded less than Timeout * N
\* before the time t
StrayWithin(c, buf, t) ==
  \E j \in 1..(Len(buf) - Len(c.Buttons)) :
    t - buf[j].Time < c.Timeout * Len(c.Buttons)

\* The sequence c matches buf at the time t
SequenceMatches(c, buf, t) ==
  TailMatches(c, buf) /\ (c.Strict => ~StrayWithin(c, buf, t))

SequenceEvent(c) == ComboEvent(c.ID, ComboTypeSequence, c.Buttons, TRUE)

\* C6 as stated: a sequence whose N presses arrived in order with every gap
\* <= Timeout (and, if strict, with no stray press close by) enqueues one
\* triggered event on the N-th press and the buffer is emptied.
C6_AsStated ==
  [][SinglePress =>
       \A i \in DOMAIN registeredCombos :
         LET c == registeredCombos[i]
         IN (IsSequence(c) /\ SequenceMatches(c, BufferWithPress, now)) =>
              /\ Count(fired', i) = 1
              /\ Count(NewComboEvents, SequenceEvent(c)) = 1
              /\ sequenceBuffer' = << >>]_vars

\* C6, amended: the same, for a sequence before which no registered sequence
\* matches on that press; this holds again after the buffer was emptied, so
\* the same presses repeated trigger once more.
C6_SequenceTriggersOnce ==
  [][SinglePress =>
       \A i \in DOMAIN registeredCombos :
         LET c == registeredCombos[i]
         IN (/\ IsSequence(c)
             /\ SequenceMatches(c, BufferWithPress, now)
             /\ \A j \in 1..(i - 1) :
                  IsSequence(registeredCombos[j]) =>
                    ~SequenceMatches(registeredCombos[j], BufferWithPress, now)) =>
              /\ Count(fired', i) = 1
              /\ Count(NewComboEvents, SequenceEvent(c)) = 1
              /\ sequenceBuffer' = << >>]_vars

\* Up, Down was pressed twice with s1 registered: two triggered events, and
\* the buffer is empty after the second
C6_Witness ==
  /\ last.op = "ProcessSDLEvent"
  /\ last.ret = <<Event("Down", TRUE, SourceKeyboard, 1073741905)>>
  /\ comboEventQueue = <<ComboEvent("s1", ComboTypeSequence, <<"Up", "Down">>, TRUE),
                         ComboEvent("s1", ComboTypeSequence, <<"Up", "Down">>, TRUE)>>
  /\ sequenceBuffer = << >>

\* The buffer a sequence is matched against: empty once a sequence before it
\* in the list has matched in the same call
BufferSeenBy(i) ==
  IF \E k \in DOMAIN fired' : fired'[k] < i /\ IsSequence(registeredCombos[fired'[k]])
    THEN << >>
    ELSE BufferWithPress

C8_StrictNoStrayBeforeStart ==
  [][SinglePress =>
       \A i \in DOMAIN registeredCombos :
         LET c == registeredCombos[i]
             buf == BufferWithPress
         IN (/\ IsSequence(c)
             /\ c.Strict
             /\ Len(buf) > Len(c.Buttons)
             /\ StrayWithin(c, buf, buf[Len(buf) - Len(c.Buttons) + 1].Time)) =>
              Count(fired', i) = 0]_vars

\* C9: RegisterChord and RegisterSequence with fewer than 2 buttons return an
\* error and leave the registered combos as they are; with 2 or more buttons
\* they return no error and append exactly one combo with the given ID, the
\* type of the call and the given buttons, not active.
C9_RegisterValidates ==
  [][last'.op \in {"RegisterChord", "RegisterSequence"} =>
       IF Len(last'.buttons) < 2
         THEN last'.err /\ registeredCombos' = registeredCombos
         ELSE /\ ~last'.err
              /\ Len(registeredCombos') = Len(registeredCombos) + 1
              /\ SubSeq(registeredCombos', 1, Len(registeredCombos)) = registeredCombos
              /\ LET c == registeredCombos'[Len(registeredCombos')]
                 IN /\ c.ID = last'.id
                    /\ c.Buttons = last'.buttons
                    /\ c.Type = (IF last'.op = "RegisterChord" THEN ComboTypeChord
                                 ELSE ComboTypeSequence)
                    /\ ~c.active]_vars

\* A sequence was registered after a chord: two combos, the last call
\* returned no error
C9_Witness ==
  /\ last.op = "RegisterSequence"
  /\ ~last.err
  /\ Len(registeredCombos) = 2
  /\ registeredCombos[1].Type = ComboTypeChord
  /\ registeredCombos[2] =
       Combo("c2", ComboTypeSequence, <<"A", "B">>, 0, DefaultTimeout, FALSE, TRUE, FALSE)

\* C10 as stated: after UnregisterCombo(id) no registered combo has that ID.
C10_UnregisterRemovesID ==
  [][last'.op = "UnregisterCombo" =>
       \A i \in DOMAIN registeredCombos' : registeredCombos'[i].ID # last'.id]_vars

\* C11: UnregisterCombo with an ID that no registered combo has leaves the
\* registered combos (with their active flags), the sequence buffer, the
\* button states and the combo event queue as they were.
C11_UnregisterAbsentNoOp ==
  [][(/\ last'.op = "UnregisterCombo"
      /\ \A i \in 1..Len(registeredCombos) : registeredCombos[i].ID # last'.id) =>
       UNCHANGED <<registeredCombos, sequenceBuffer, buttonStates, comboEventQueue>>]_vars

\* UnregisterCombo was called with an ID none of the registered combos has
\* (as many combos after the call as it found), one of them an active chord,
\* with a press buffered and a combo event pending
C11_Witness ==
  /\ last.op = "UnregisterCombo"
  /\ registeredCombos # << >>
  /\ last.found.combos = Len(registeredCombos)
  /\ \A i \in 1..Len(registeredCombos) : registeredCombos[i].ID # last.id
  /\ \E i \in 1..Len(registeredCombos) : registeredCombos[i].active
  /\ sequenceBuffer # << >>
  /\ comboEventQueue # << >>

\* C12: ClearCombos leaves no registered combo and an empty sequence buffer;
\* and a sequence triggers on a press only when its buttons are the last
\* entries of the buffer as that press finds it, so after a clear only on
\* presses processed after the clear.
C12_ClearCombosEmptiesBuffer ==
  [][/\ last'.op = "ClearCombos" =>
          registeredCombos' = << >> /\ sequenceBuffer' = << >>
     /\ SinglePress =>
          \A k \in DOMAIN fired' :
            LET c == registeredCombos[fired'[k]]
                N == Len(c.Buttons)
            IN c.Type = ComboTypeSequence =>
                 /\ Len(sequenceBuffer) >= N - 1
                 /\ \A j \in 1..(N - 1) :
                      sequenceBuffer[Len(sequenceBuffer) - (N - 1) + j].Button = c.Buttons[j]
                 /\ last'.ret[1].Button = c.Buttons[N]]_vars

\* ClearCombos was called with a combo registered and a press buffered
C12_Witness ==
  /\ last.op = "ClearCombos"
  /\ last.found.combos > 0
  /\ last.found.presses > 0
  /\ registeredCombos = << >>
  /\ sequenceBuffer = << >>

IsPrefix(q, r) == Len(q) <= Len(r) /\ SubSeq(r, 1, Len(q)) = q

\* C13: ProcessComboEvent returns the head of the combo queue and removes
\* it, or returns nil and changes nothing when the queue is empty; every
\* other call only appends to the queue, so the events come back one per
\* call in the order they were enqueued.
C13_ComboEventsFIFO ==
  [][/\ last'.op = "ProcessComboEvent" =>
          IF comboEventQueue = << >>
            THEN /\ last'.ret = << >>
                 /\ UNCHANGED <<mapping, axisStates, hatStates, eventQueue, buttonStates,
                                registeredCombos, comboEventQueue, sequenceBuffer>>
            ELSE /\ last'.ret = <<Head(comboEventQueue)>>
                 /\ comboEventQueue' = Tail(comboEventQueue)
     /\ last'.op # "ProcessComboEvent" => IsPrefix(comboEventQueue, comboEventQueue')]_vars

\* A press triggered the chord and then the sequence, a release ended the
\* chord; ProcessComboEvent returned the chord's trigger and left the
\* sequence's trigger and the chord's release, in that order
C13_Witness ==
  /\ last.op = "ProcessComboEvent"
  /\ last.ret = <<ComboEvent("c1", ComboTypeChord, <<"A", "B">>, TRUE)>>
  /\ comboEventQueue = <<ComboEvent("s1", ComboTypeSequence, <<"A", "B">>, TRUE),
                         ComboEvent("c1", ComboTypeChord, <<"A", "B">>, FALSE)>>

C15_QueuedEventIgnoresRaw ==
  [][Drained =>
       /\ last'.ret = <<Head(eventQueue)>>
       /\ eventQueue' = Tail(eventQueue)
       /\ UNCHANGED <<axisStates, hatStates, buttonStates, sequenceBuffer,
                      registeredCombos, comboEventQueue>>]_vars

\* The hat went from Up to Right; the next call was given the sample that
\* centers the hat and returned the queued press of Right: the hat is still
\* recorded at Right and Right is still recorded as pressed
C15_Witness ==
  /\ last.op = "ProcessSDLEvent"
  /\ last.raw = RawEvent("JoyHat", 0, FALSE, HAT_CENTERED)
  /\ last.ret = <<Event("Right", TRUE, SourceHatSwitch, 2)>>
  /\ hatStates[0] = 2
  /\ buttonStates["Right"].Pressed
  /\ eventQueue = << >>

\* The raw event is a key, controller button or joystick button
ButtonTable(e) ==
  CASE e.Type = "Keyboard" -> mapping.KeyboardMap
    [] e.Type = "ControllerButton" -> mapping.ControllerButtonMap
    [] e.Type = "JoyButton" -> mapping.JoystickButtonMap

ButtonSource(e) ==
  CASE e.Type = "Keyboard" -> SourceKeyboard
    [] e.Type = "ControllerButton" -> SourceController
    [] e.Type = "JoyButton" -> SourceJoystick

IsButtonEvent(e) == e.Type \in {"Keyboard", "ControllerButton", "JoyButton"}

UnmappedButtonEvent(e) == IsButtonEvent(e) /\ e.Code \notin DOMAIN ButtonTable(e)

MappedButtonEvent(e) == IsButtonEvent(e) /\ e.Code \in DOMAIN ButtonTable(e)

\* C16 as stated: every call given a key, controller button or joystick
\* button without an entry in the mapping returns no event and leaves the
\* button states, the sequence buffer, the combo queue and the internal
\* event queue unchanged.
C16_AsStated ==
  [][(last'.op = "ProcessSDLEvent" /\ UnmappedButtonEvent(last'.raw)) =>
       /\ last'.ret = << >>
       /\ UNCHANGED <<buttonStates, sequenceBuffer, comboEventQueue, eventQueue>>]_vars

\* C16: a call given a key, controller button or joystick button without an
\* entry in the mapping, made while no event is queued, returns no event and
\* leaves the button states, the sequence buffer, the combo queue and the
\* internal event queue unchanged; made while an event is queued, it returns
\* that event and removes it from the internal queue.
C16_UnmappedButtonNoEvent ==
  [][(last'.op = "ProcessSDLEvent" /\ UnmappedButtonEvent(last'.raw)) =>
       /\ UNCHANGED <<buttonStates, sequenceBuffer, comboEventQueue>>
       /\ IF eventQueue = << >>
            THEN last'.ret = << >> /\ eventQueue' = << >>
            ELSE last'.ret = <<Head(eventQueue)>> /\ eventQueue' = Tail(eventQueue)]_vars

\* A key without an entry in the mapping was handed in after presses had been
\* recorded, and the call returned nothing
C16_Witness ==
  /\ last.op = "ProcessSDLEvent"
  /\ last.raw = RawEvent("Keyboard", 122, TRUE, 0)
  /\ last.ret = << >>
  /\ sequenceBuffer # << >>
  /\ \E b \in DOMAIN buttonStates : buttonStates[b].Pressed

\* C17: with no queued event pending, a call given a mapped key, controller
\* button or joystick button returns exactly the Event {mapped button,
\* Pressed = down, Source of the event type, RawCode = code} and queues
\* nothing: a key-down gives the press, the key-up after it the release.
C17_MappedButtonEvent ==
  [][(Dispatched /\ MappedButtonEvent(last'.raw)) =>
       /\ last'.ret = <<Event(ButtonTable(last'.raw)[last'.raw.Code], last'.raw.Down,
                              ButtonSource(last'.raw), last'.raw.Code)>>
       /\ eventQueue' = << >>]_vars

\* Under the default mapping the key a went down and up again: the call
\* given the key-up returned {A, false, keyboard, 97}, and the press before it
\* is in the sequence buffer
C17_Witness ==
  /\ mapping = DefaultInputMapping
  /\ last.op = "ProcessSDLEvent"
  /\ last.raw = RawEvent("Keyboard", 97, FALSE, 0)
  /\ last.ret = <<Event("A", FALSE, SourceKeyboard, 97)>>
  /\ sequenceBuffer # << >>
  /\ sequenceBuffer[Len(sequenceBuffer)].Button = "A"
  /\ ~buttonStates["A"].Pressed

\* The byte slice is one the loader accepts
Parses(data) == \A r \in LoadInputMappingFromBytes(data) : ~r.err

\* What the loader makes of the byte slice
MappingsOf(data) == {r.mapping : r \in LoadInputMappingFromBytes(data)}

\* INPUT_MAPPING_PATH is set and names a file that can be read
FileRead(env) ==
  /\ env.INPUT_MAPPING_PATH # ""
  /\ env.file.path = env.INPUT_MAPPING_PATH
  /\ env.file.readable

\* C18: GetInputMapping returns the mapping of the in-memory bytes if they
\* are set and parse; otherwise that of the file INPUT_MAPPING_PATH names if
\* the variable is set and the file reads and parses; otherwise the default
\* mapping; it never returns nil.
C18_MappingPriority ==
  [][last'.op = "GetInputMapping" =>
       /\ last'.ret # << >>
       /\ ~last'.err
       /\ IF inputMappingBytes.kind # "empty" /\ Parses(inputMappingBytes)
            THEN last'.ret \in MappingsOf(inputMappingBytes)
            ELSE IF FileRead(environ) /\ Parses(environ.file.data)
              THEN last'.ret \in MappingsOf(environ.file.data)
              ELSE last'.ret = <<DefaultInputMapping>>]_vars

\* The in-memory bytes do not parse, the file named by INPUT_MAPPING_PATH
\* does: GetInputMapping returned the mapping of the file
C18_Witness ==
  /\ last.op = "GetInputMapping"
  /\ inputMappingBytes = MalformedBytes
  /\ environ = Environ("/mapping.json", File("/mapping.json", TRUE, Bytes("json", FullDocument)))
  /\ last.ret \in MappingsOf(Bytes("json", FullDocument))
  /\ last.ret # <<DefaultInputMapping>>

MappingTables ==
  {"KeyboardMap", "ControllerButtonMap", "ControllerHatMap", "JoystickAxisMap",
   "JoystickButtonMap", "JoystickHatMap"}

\* The two mappings give the same answer for every code of every table
SameLookups(a, b) ==
  \A t \in MappingTables :
    /\ DOMAIN a[t] = DOMAIN b[t]
    /\ \A k \in DOMAIN a[t] : a[t][k] = b[t][k]

\* C19: LoadInputMappingFromBytes given the bytes ToJSON returned for a
\* mapping succeeds, and the mapping it returns has in each of the six
\* tables the entries of the mapping that was saved (axis thresholds
\* included).
C19_SaveLoadRoundTrip ==
  [][(/\ last.op = "ToJSON"
      /\ last'.op = "LoadInputMappingFromBytes"
      /\ last'.data = last.ret[1]) =>
       /\ ~last'.err
       /\ last'.ret # << >>
       /\ SameLookups(last'.ret[1], mapping)]_vars

\* A mapping with entries in all six tables was saved and loaded again
C19_Witness ==
  /\ last.op = "LoadInputMappingFromBytes"
  /\ last.data = ToJSON(mapping)
  /\ ~last.err
  /\ \A t \in MappingTables : DOMAIN mapping[t] # {}
  /\ SameLookups(last.ret[1], mapping)

\* C20: the sequence buffer never holds more than 20 entries; a press
\* appends its entry at the end and, when that makes 21, drops the oldest
\* one (a sequence that triggers on the press empties the buffer instead);
\* ClearCombos empties the buffer and no other call changes it: the buffer
\* holds the most recent presses since it was last emptied, in order.
C20_BufferKeepsLast20 ==
  /\ [](Len(sequenceBuffer) <= 20)
  /\ [][IF SinglePress
          THEN LET b == Append(sequenceBuffer,
                               [Button |-> last'.ret[1].Button, Time |-> now])
               IN \/ sequenceBuffer' = (IF Len(b) = 21 THEN Tail(b) ELSE b)
                  \/ /\ \E k \in DOMAIN fired' :
                          registeredCombos[fired'[k]].Type = ComboTypeSequence
                     /\ sequenceBuffer' = << >>
          ELSE IF last'.op = "ClearCombos"
            THEN sequenceBuffer' = << >>
            ELSE sequenceBuffer' = sequenceBuffer]_vars

\* The buffer is full of presses of A, made after the press of B that began
\* it: the entry of B has been dropped
C20_Witness ==
  /\ Len(sequenceBuffer) = 20
  /\ \A k \in DOMAIN sequenceBuffer : sequenceBuffer[k].Button = "A"
  /\ "B" \in DOMAIN buttonStates
  /\ buttonStates["B"].Pressed
  /\ last.op = "ProcessSDLEvent"
  /\ last.ret = <<Event("A", TRUE, SourceKeyboard, 97)>>

\* C21: whenever the OnTrigger callback of a chord runs, every button of the
\* chord is recorded as pressed, the chord is marked active and its
\* triggered ComboEvent is in the combo queue; and it runs inside the call
\* that dispatches the raw event, whose press of a button of the chord is
\* returned by that call or waits in the internal queue for the next one.
C21_CallbackSeesTrigger ==
  [][/\ Len(last'.seen) = Cardinality({k \in DOMAIN called' : called'[k][2] = "OnTrigger"})
     /\ \A k \in DOMAIN last'.seen :
          LET s == last'.seen[k]
              c == registeredCombos[s.combo]
          IN /\ c.Type = ComboTypeChord
             /\ Range(c.Buttons) \subseteq s.pressed
             /\ s.active
             /\ s.pending > Len(comboEventQueue)
             /\ comboEventQueue'[s.pending] = ComboEvent(c.ID, ComboTypeChord, c.Buttons, TRUE)
             /\ Dispatched
             /\ \/ /\ last'.ret # << >>
                   /\ last'.ret[1].Pressed
                   /\ last'.ret[1].Button \in Range(c.Buttons)
                \/ /\ Len(eventQueue') = 1
                   /\ eventQueue'[1].Pressed
                   /\ eventQueue'[1].Button \in Range(c.Buttons)]_vars

\* With A held the hat went from Up to Right: the callback of the chord
\* {Right, A} ran in the call that returned the release of Up, while the
\* press of Right waits in the internal queue
C21_Witness ==
  /\ last.op = "ProcessSDLEvent"
  /\ last.raw = RawEvent("JoyHat", 0, FALSE, 2)
  /\ last.ret = <<Event("Up", FALSE, SourceHatSwitch, 1)>>
  /\ eventQueue = <<Event("Right", TRUE, SourceHatSwitch, 2)>>
  /\ Len(last.seen) = 1
  /\ registeredCombos[last.seen[1].combo].ID = "h2"
  /\ {"Right", "A"} \subseteq last.seen[1].pressed

\* C22 as stated: with a fixed set of registered combos and no call of
\* ProcessComboEvent, the number of pending entries of the combo event queue
\* stays within a fixed bound, here the one capacity the Processor defines.
C22_ComboQueueBounded == Len(comboEventQueue) <= maxBufferSize

\* C23 as stated: every call of ProcessSDLEvent given a mapped key,
\* controller button or joystick button event returns the semantic event of
\* its button or leaves it in the internal queue for a later call, and
\* leaves the button state of that button as the raw event has it.
C23_NoMappedInputLost ==
  [][(last'.op = "ProcessSDLEvent" /\ MappedButtonEvent(last'.raw)) =>
       LET e == last'.raw
           button == ButtonTable(e)[e.Code]
           event == Event(button, e.Down, ButtonSource(e), e.Code)
       IN /\ last'.ret = <<event>> \/ \E k \in DOMAIN eventQueue' : eventQueue'[k] = event
          /\ button \in DOMAIN buttonStates'
          /\ buttonStates'[button].Pressed = e.Down]_vars

\* C24 as stated: for a direct hat change from direction P to direction Q
\* the release of P (button state, chord-release check) is applied before
\* the press of Q is recorded: a chord callback that the press of Q sets off
\* finds the button of P released, and the release events the change
\* enqueues come before the triggered events it enqueues.
C24_HatReleaseAppliedFirst ==
  [][(Dispatched /\ HatDirectionChange(last'.raw)) =>
       LET P == mapping.JoystickHatMap[hatStates[last'.raw.Code]]
       IN /\ \A k \in DOMAIN last'.seen : P \notin last'.seen[k].pressed
          /\ \A j, k \in DOMAIN NewComboEvents :
               (NewComboEvents[j].Triggered /\ ~NewComboEvents[k].Triggered) => k < j]_vars

\* C25 as stated: a hat sample that moves the hat directly from one mapped
\* direction to another never triggers a chord that holds the buttons of
\* both directions.
C25_NoChordAcrossDirections ==
  [][(Dispatched /\ HatDirectionChange(last'.raw)) =>
       LET P == mapping.JoystickHatMap[hatStates[last'.raw.Code]]
           Q == mapping.JoystickHatMap[last'.raw.Value]
       IN \A k \in DOMAIN fired' :
            (P # Q /\ {P, Q} \subseteq Range(registeredCombos[fired'[k]].Buttons)) =>
              ~NewComboEvents[k].Triggered]_vars

\* C26 as stated: whenever ProcessSDLEvent returns an event, dispatched or
\* taken from the internal queue, the button state of its button has Pressed
\* equal to the Pressed of the event.
C26_ReturnedEventMatchesState ==
  [][(last'.op = "ProcessSDLEvent" /\ last'.ret # << >>) =>
       /\ last'.ret[1].Button \in DOMAIN buttonStates'
       /\ buttonStates'[last'.ret[1].Button].Pressed = last'.ret[1].Pressed]_vars

\* C27 as stated: a dispatched hat sample returns a press only when the
\* previous value of the hat was centered and the new value is non-centered
\* and mapped; a sample that repeats the current non-centered value of the
\* hat returns no event and leaves the button states and the sequence buffer
\* as they were.
C27_HatPressOnlyFromCenter ==
  [][(Dispatched /\ last'.raw.Type = "JoyHat") =>
       LET e == last'.raw
           previousValue == hatStates[e.Code]
       IN /\ (last'.ret # << >> /\ last'.ret[1].Pressed) =>
               previousValue = HAT_CENTERED /\ HatMapped(e.Value)
          /\ (e.Value # HAT_CENTERED /\ e.Value = previousValue) =>
               /\ last'.ret = << >>
               /\ UNCHANGED <<buttonStates, sequenceBuffer>>]_vars

\* The raw event is a hat sample with the centered value
CenteredSample(e) == e.Type = "JoyHat" /\ e.Value = HAT_CENTERED

\* C28 as stated: every call given a centered hat sample returns exactly one
\* release of the button of the previous value and queues nothing when the
\* previous value of the hat was non-centered and mapped, and returns no
\* event when it was centered or unmapped.
C28_AsStated ==
  [][(last'.op = "ProcessSDLEvent" /\ CenteredSample(last'.raw)) =>
       LET previousValue == hatStates[last'.raw.Code]
       IN IF HatMapped(previousValue)
            THEN last'.ret = <<HatEvent(previousValue, FALSE)>> /\ eventQueue' = << >>
            ELSE last'.ret = << >>]_vars

\* C28: a call given a centered hat sample while no event is queued returns
\* exactly one release of the button of the previous value (with that value
\* as its raw code), records the hat as centered and queues nothing when the
\* previous value was non-centered and mapped, and returns no event when it
\* was centered or unmapped; a call given it while an event is queued
\* returns the queued event and leaves the hat states as they were.
C28_CenteredSampleReleases ==
  [][(last'.op = "ProcessSDLEvent" /\ CenteredSample(last'.raw)) =>
       LET previousValue == hatStates[last'.raw.Code]
       IN IF eventQueue # << >>
            THEN last'.ret = <<Head(eventQueue)>> /\ hatStates' = hatStates
            ELSE /\ hatStates'[last'.raw.Code] = HAT_CENTERED
                 /\ eventQueue' = << >>
                 /\ IF HatMapped(previousValue)
                      THEN /\ last'.ret = <<HatEvent(previousValue, FALSE)>>
                           /\ ~buttonStates'[mapping.JoystickHatMap[previousValue]].Pressed
                      ELSE last'.ret = << >> /\ buttonStates' = buttonStates]_vars

\* The hat went to Right and back to the center: the call given the centered
\* sample returned the release of Right, and Right is recorded as released
C28_Witness ==
  /\ last.op = "ProcessSDLEvent"
  /\ last.raw = RawEvent("JoyHat", 0, FALSE, HAT_CENTERED)
  /\ last.ret = <<Event("Right", FALSE, SourceHatSwitch, 2)>>
  /\ hatStates[0] = HAT_CENTERED
  /\ ~buttonStates["Right"].Pressed
  /\ eventQueue = << >>

\* The button is recorded as pressed
Held(button) == button \in DOMAIN buttonStates /\ buttonStates[button].Pressed

\* The direction of an axis value for a deadzone threshold T >= 0
Direction(value, T) == IF value > T THEN 1 ELSE IF value < -T THEN -1 ELSE 0

\* C29 as stated: an axis sample that moves the axis directly from the
\* positive to the negative state (or the reverse) returns only the release
\* of the button of the previous direction, and a following sample that
\* finds the axis still in the new direction, the press not yet produced,
\* returns the press of the button of the new direction.
C29_AxisFlipPressFollows ==
  [][(Dispatched /\ MappedAxisSample(last'.raw)) =>
       LET e == last'.raw
           cfg == mapping.JoystickAxisMap[e.Code]
           prev == axisStates[e.Code]
           new == Direction(e.Value, cfg.Threshold)
           pos(pressed) == <<Event(cfg.PositiveButton, pressed, AxisSource(e), e.Code)>>
           neg(pressed) == <<Event(cfg.NegativeButton, pressed, AxisSource(e), e.Code)>>
       IN /\ (prev = 1 /\ new = -1) => last'.ret = pos(FALSE) /\ eventQueue' = << >>
          /\ (prev = -1 /\ new = 1) => last'.ret = neg(FALSE) /\ eventQueue' = << >>
          /\ (prev = -1 /\ new = -1 /\ ~Held(cfg.NegativeButton)) => last'.ret = neg(TRUE)
          /\ (prev = 1 /\ new = 1 /\ ~Held(cfg.PositiveButton)) => last'.ret = pos(TRUE)]_vars

\* C30 as stated: the events an axis returns for each of its two buttons
\* alternate, starting with a press: a release is returned only for a button
\* whose last event was a press, a press only for a button that is not
\* pressed.
C30_AxisEventsAlternate ==
  [][(Dispatched /\ MappedAxisSample(last'.raw) /\ last'.ret # << >>) =>
       /\ last'.ret[1].Button \in
            {mapping.JoystickAxisMap[last'.raw.Code].PositiveButton,
             mapping.JoystickAxisMap[last'.raw.Code].NegativeButton}
       /\ last'.ret[1].Pressed = ~Held(last'.ret[1].Button)]_vars

\* C31: the internal event queue never holds more than one event and every
\* event in it is a press from a hat; a call returns at most one event and
\* leaves at most one queued; and an event enters the queue only in a call
\* that dispatches a hat sample moving the hat from one mapped direction to
\* another, as the press of the new direction, beside the returned release.
C31_OneSlotQueue ==
  /\ [](/\ Len(eventQueue) <= 1
        /\ \A k \in DOMAIN eventQueue :
             eventQueue[k].Pressed /\ eventQueue[k].Source = SourceHatSwitch)
  /\ [][/\ last'.op = "ProcessSDLEvent" => Len(last'.ret) <= 1 /\ Len(eventQueue') <= 1
        /\ (eventQueue' # eventQueue /\ eventQueue' # << >>) =>
             /\ Dispatched
             /\ HatDirectionChange(last'.raw)
             /\ eventQueue' = <<HatEvent(last'.raw.Value, TRUE)>>
             /\ last'.ret = <<HatEvent(hatStates[last'.raw.Code], FALSE)>>]_vars

\* The hat went from Right to Down: the call returned the release of Right
\* and the press of Down is the one event queued
C31_Witness ==
  /\ last.op = "ProcessSDLEvent"
  /\ last.raw = RawEvent("JoyHat", 0, FALSE, 4)
  /\ last.ret = <<Event("Right", FALSE, SourceHatSwitch, 2)>>
  /\ eventQueue = <<Event("Down", TRUE, SourceHatSwitch, 4)>>

\* C32 as stated: when the callback of a combo calls UnregisterCombo or
\* ClearCombos, the evaluation pass in progress completes without an index
\* past the end of the combo list: no call of ProcessSDLEvent ends in a
\* panic.
C32_CallbackRemovalSafe == ~last.panic

\* The chord events of one ID, in the order they were enqueued
ChordEventsOf(id) ==
  SelectSeq(comboEventQueue, LAMBDA e : e.ComboID = id /\ e.ComboType = ComboTypeChord)

\* C33 as stated: for every chord ID, the combo events enqueued for that ID
\* alternate triggered, released, triggered, ... starting with triggered,
\* whatever RegisterChord, UnregisterCombo and ClearCombos calls come
\* between the input events.
C33_ChordEventsAlternate ==
  \A id \in RegIDs :
    \A k \in 1..Len(ChordEventsOf(id)) : ChordEventsOf(id)[k].Triggered = (k % 2 = 1)

\* The registered sequences that match the buffer of the step's press
MatchingSequences ==
  {i \in DOMAIN registeredCombos :
     /\ IsSequence(registeredCombos[i])
     /\ SequenceMatches(registeredCombos[i], BufferWithPress, now)}

\* The triggered sequence events among the combo events of the step
NewSequenceEvents ==
  SelectSeq(NewComboEvents, LAMBDA e : e.ComboType = ComboTypeSequence /\ e.Triggered)

C35_ButtonStateFrame ==
  [][(SinglePress \/ SingleRelease) =>
       LET e == last'.ret[1]
       IN /\ DOMAIN buttonStates' = DOMAIN buttonStates \cup {e.Button}
          /\ buttonStates'[e.Button] = [Pressed |-> e.Pressed, PressTime |-> now]
          /\ \A b \in DOMAIN buttonStates \ {e.Button} : buttonStates'[b] = buttonStates[b]
          /\ e.Pressed =>
               \A i \in DOMAIN registeredCombos :
                 (IsChord(registeredCombos[i]) /\ ~registeredCombos[i].active) =>
                   (Count(fired', i) = 1 <=> ChordSatisfied(registeredCombos[i]))]_vars

\* A was pressed at 0 and again at 3, then B at 3: the chord {A, B} with
\* the window of 2 units triggered, A's press time being that of its
\* latest press
C35_Witness ==
  /\ last.op = "ProcessSDLEvent"
  /\ last.ret = <<Event("B", TRUE, SourceKeyboard, 98)>>
  /\ sequenceBuffer = <<[Button |-> "A", Time |-> 0], [Button |-> "A", Time |-> 3],
                        [Button |-> "B", Time |-> 3]>>
  /\ buttonStates["A"] = [Pressed |-> TRUE, PressTime |-> 3]
  /\ buttonStates["B"] = [Pressed |-> TRUE, PressTime |-> 3]
  /\ fired # << >>
  /\ registeredCombos[fired[1]].ID = "c1"
  /\ registeredCombos[fired[1]].Window = 2

\* C36: RegisterSequence accepts any number of buttons >= 2, also more than
\* the buffer holds; the buffer never holds more than 20 entries, so a
\* sequence of more than 20 buttons never triggers: no call enqueues an
\* event for it or invokes its callback.
C36_LongSequenceNeverTriggers ==
  /\ [](Len(sequenceBuffer) <= maxBufferSize)
  /\ [][/\ (last'.op = "RegisterSequence" /\ Len(last'.buttons) >= 2) =>
             /\ ~last'.err
             /\ Len(registeredCombos') = Len(registeredCombos) + 1
             /\ registeredCombos'[Len(registeredCombos')].Buttons = last'.buttons
        /\ last'.op = "ProcessSDLEvent" =>
             \A i \in DOMAIN registeredCombos :
               (IsSequence(registeredCombos[i])
                  /\ Len(registeredCombos[i].Buttons) > maxBufferSize) =>
                 /\ Count(fired', i) = 0
                 /\ Count(called', <<i, "OnTrigger">>) = 0
                 /\ \A k \in DOMAIN NewComboEvents :
                      NewComboEvents[k].ComboID # registeredCombos[i].ID]_vars

\* Only s21 (B, then A twenty times) is registered; B was pressed, then A
\* twenty times: the buffer holds the twenty presses of A, the press of B
\* was dropped, and nothing triggered
C36_Witness ==
  /\ Len(registeredCombos) = 1
  /\ registeredCombos[1].ID = "s21"
  /\ Len(registeredCombos[1].Buttons) = maxBufferSize + 1
  /\ last.op = "ProcessSDLEvent"
  /\ last.ret = <<Event("A", TRUE, SourceKeyboard, 97)>>
  /\ Len(sequenceBuffer) = maxBufferSize
  /\ \A k \in DOMAIN sequenceBuffer : sequenceBuffer[k].Button = "A"
  /\ "B" \in DOMAIN buttonStates
  /\ comboEventQueue = << >>

\* The duration a combo was registered with, by its ID
GivenDuration(id) ==
  IF \E r \in DefaultsChords : r.id = id
    THEN (CHOOSE r \in DefaultsChords : r.id = id).opts.Window
    ELSE (CHOOSE r \in DefaultsSequences : r.id = id).opts.Timeout

\* The combo c with the window and the timeout the claim says it is
\* evaluated with: 100ms (2 units), 500ms (10 units), or the value given
AsClaimed(c) ==
  LET g == GivenDuration(c.ID)
  IN IF IsChord(c)
       THEN [c EXCEPT !.Window = IF g = 0 THEN 2 ELSE g]
       ELSE [c EXCEPT !.Timeout = IF g = 0 THEN 10 ELSE g]

\* C37: a chord registered with Window = 0 is evaluated with a window of
\* 100ms and a sequence registered with Timeout = 0 with a timeout of 500ms;
\* any non-zero value is used as given: on a press a chord that is not
\* active triggers exactly when its buttons' press times lie within that
\* window, and a sequence exactly when the gaps of the last presses are
\* within that timeout.
C37_DefaultDurations ==
  [][SinglePress =>
       \A i \in DOMAIN registeredCombos :
         LET c == registeredCombos[i]
         IN IF IsChord(c)
              THEN ~c.active => (Count(fired', i) = 1 <=> ChordSatisfied(AsClaimed(c)))
              ELSE Count(fired', i) = 1 <=> TailMatches(AsClaimed(c), BufferSeenBy(i))]_vars

\* c0 (Window 0) and s0 (Timeout 0) are registered; A was pressed at 0 and B
\* 500ms later: the sequence triggered, at the very limit of its timeout,
\* and the chord, 400ms past its window, did not
C37_Witness ==
  /\ last.op = "ProcessSDLEvent"
  /\ last.ret = <<Event("B", TRUE, SourceKeyboard, 98)>>
  /\ {registeredCombos[i].ID : i \in DOMAIN registeredCombos} = {"c0", "s0"}
  /\ DOMAIN buttonStates = {"A", "B"}
  /\ buttonStates["A"] = [Pressed |-> TRUE, PressTime |-> 0]
  /\ buttonStates["B"] = [Pressed |-> TRUE, PressTime |-> 10]
  /\ comboEventQueue = <<ComboEvent("s0", ComboTypeSequence, <<"A", "B">>, TRUE)>>
  /\ \A i \in DOMAIN registeredCombos : ~registeredCombos[i].active

\* The loaded table has one entry per configured key, under that key, with
\* the value configured for it
KeptAsConfigured(configured, result) ==
  /\ DOMAIN result = DOMAIN configured
  /\ \A k \in DOMAIN configured : result[k] = configured[k]

\* C38 as stated: LoadInputMappingFromBytes keeps every configured integer
\* key as its own lookup code: in each sub-map the loaded entries are those
\* of the document, key by key, also for hat, axis and joystick-button keys
\* outside 0..255.
C38_KeysKeptAsCodes ==
  (last.op = "LoadInputMappingFromBytes" /\ ~last.err) =>
    LET doc == last.data.doc
        im == last.ret[1]
    IN /\ KeptAsConfigured(asButtons(doc.KeyboardMap), im.KeyboardMap)
       /\ KeptAsConfigured(asButtons(doc.ControllerButtonMap), im.ControllerButtonMap)
       /\ KeptAsConfigured(asButtons(doc.ControllerHatMap), im.ControllerHatMap)
       /\ KeptAsConfigured(asAxisMappings(doc.JoystickAxisMap), im.JoystickAxisMap)
       /\ KeptAsConfigured(asButtons(doc.JoystickButtonMap), im.JoystickButtonMap)
       /\ KeptAsConfigured(asButtons(doc.JoystickHatMap), im.JoystickHatMap)

====
